---- MODULE Spec2Model ----
(***************************************************************************)
(* A model of the extraction core of xuhanyang3/eyemllm:                   *)
(*   extract_ffa_only.py      analyze_pdf_info, is_fa_icga_combined_image, *)
(*                            crop_fa_from_combined_image,                 *)
(*                            extract_ffa_images_from_pdf                  *)
(*   extract_oct_from_path.py get_ocr_reader, detect_eye_from_oct_image,   *)
(*                            detect_eye_from_pdf_page,                    *)
(*                            extract_oct_images_from_pdf                  *)
(* Texts are sequences of one-character strings, so that counting, finding,*)
(* replacing and sanitising are computed the way the Python code computes  *)
(* them.  The two CJK eye words are the characters "cjk_you" "cjk_yan"     *)
(* (right eye) and "cjk_zuo" "cjk_yan" (left eye).                         *)
(***************************************************************************)
EXTENDS Integers, Sequences, FiniteSets, TLC

VARIABLES
    doc,            \* the PDF handed to extract_ffa_images_from_pdf
    opts,           \* [extract_ir, pdf_index, brightness_threshold]
    pc,             \* position inside extract_ffa_images_from_pdf
    pdf_info,       \* result of analyze_pdf_info (None or a dict)
    page_num,       \* 0-based page index of the page loop
    page_state,     \* per-page locals: eye_by_column, candidates, groups
    total_images,   \* running frame counter
    images_info,    \* manifest (list of dicts)
    out_dir,        \* [created, files] : the output directory
    result,         \* value returned by extract_ffa_images_from_pdf
    comb,           \* combined-frame detector under test
    oct,            \* state of one extract_oct_images_from_pdf call
    par,            \* several extract calls and the directory they share
    proc            \* the process: _ocr_reader and the cascade calls made

vars == <<doc, opts, pc, pdf_info, page_num, page_state, total_images,
          images_info, out_dir, result, comb, oct, par, proc>>

ffa_vars == <<doc, opts, pc, pdf_info, page_num, page_state, total_images,
              images_info, out_dir, result>>

(***************************************************************************)
(* Python str operations on sequences of characters.                       *)
(***************************************************************************)
Max2(a, b) == IF a >= b THEN a ELSE b
Min2(a, b) == IF a <= b THEN a ELSE b
Abs(a) == IF a < 0 THEN -a ELSE a
SetMin(S) == CHOOSE m \in S : \A n \in S : m <= n
SetMax(S) == CHOOSE m \in S : \A n \in S : m >= n

\* s[i:i+len(sub)] == sub, i 0-based
MatchAt(s, sub, i) ==
    /\ i >= 0
    /\ i + Len(sub) <= Len(s)
    /\ \A k \in 1..Len(sub) : s[i + k] = sub[k]

\* str.find(sub, start): lowest 0-based index >= start, -1 when absent
RECURSIVE Find(_, _, _)
Find(s, sub, start) ==
    IF start + Len(sub) > Len(s) THEN -1
    ELSE IF MatchAt(s, sub, start) THEN start
    ELSE Find(s, sub, start + 1)

\* sub in s
Contains(s, sub) == Find(s, sub, 0) # -1

\* str.count(sub): non-overlapping occurrences, left to right
RECURSIVE CountFrom(_, _, _)
CountFrom(s, sub, start) ==
    LET p == Find(s, sub, start)
    IN  IF p = -1 THEN 0 ELSE 1 + CountFrom(s, sub, p + Len(sub))

Count(s, sub) == CountFrom(s, sub, 0)

\* str.replace(old, new): non-overlapping occurrences, left to right
RECURSIVE ReplaceFrom(_, _, _, _)
ReplaceFrom(s, old, new, start) ==
    LET p == Find(s, old, start)
    IN  IF p = -1 THEN SubSeq(s, start + 1, Len(s))
        ELSE SubSeq(s, start + 1, p) \o new
             \o ReplaceFrom(s, old, new, p + Len(old))

Replace(s, old, new) == ReplaceFrom(s, old, new, 0)

LowerLetters == <<"a","b","c","d","e","f","g","h","i","j","k","l","m",
                  "n","o","p","q","r","s","t","u","v","w","x","y","z">>
UpperLetters == <<"A","B","C","D","E","F","G","H","I","J","K","L","M",
                  "N","O","P","Q","R","S","T","U","V","W","X","Y","Z">>
Digits == <<"0","1","2","3","4","5","6","7","8","9">>

Range(f) == {f[i] : i \in DOMAIN f}

UpperChar(c) ==
    IF c \in Range(LowerLetters)
    THEN UpperLetters[CHOOSE i \in 1..26 : LowerLetters[i] = c]
    ELSE c

\* str.upper()
Upper(s) == [i \in 1..Len(s) |-> UpperChar(s[i])]

Whitespace == {" ", "\n", "\t"}

RECURSIVE LStrip(_)
LStrip(s) ==
    IF s # <<>> /\ Head(s) \in Whitespace THEN LStrip(Tail(s)) ELSE s

RECURSIVE RStrip(_)
RStrip(s) ==
    IF s # <<>> /\ s[Len(s)] \in Whitespace
    THEN RStrip(SubSeq(s, 1, Len(s) - 1)) ELSE s

\* str.strip()
Strip(s) == RStrip(LStrip(s))

\* str(n) for the small non-negative integers used in file names
RECURSIVE IntToStr(_)
IntToStr(n) ==
    IF n < 10 THEN <<Digits[n + 1]>>
    ELSE IntToStr(n \div 10) \o <<Digits[(n % 10) + 1]>>

RECURSIVE Concat(_)
Concat(ss) == IF ss = <<>> THEN <<>> ELSE Head(ss) \o Concat(Tail(ss))

(***************************************************************************)
(* Literals of the source.                                                 *)
(***************************************************************************)
S_FA_SP    == <<"F","A"," ">>
S_FA_NL    == <<"F","A","\n">>
S_FA_COLON == <<"F","A",":">>
S_FA_TAB   == <<"F","A","\t">>
S_FA       == <<"F","A">>
S_ICGA     == <<"I","C","G","A">>
S_IR       == <<"I","R">>
S_IR_SP    == <<"I","R"," ">>
S_IR_NL    == <<"I","R","\n">>
S_INFRARED == <<"I","N","F","R","A","R","E","D">>
S_OD       == <<"O","D">>
S_OS       == <<"O","S">>
S_RIGHT_EYE == <<"R","I","G","H","T"," ","E","Y","E">>
S_LEFT_EYE  == <<"L","E","F","T"," ","E","Y","E">>
S_SELECTED  == <<" ","S","E","L","E","C","T","E","D">>
S_RIGHT_EYE_SELECTED == S_RIGHT_EYE \o S_SELECTED
S_LEFT_EYE_SELECTED  == S_LEFT_EYE \o S_SELECTED
S_YOUYAN   == <<"cjk_you","cjk_yan">>
S_ZUOYAN   == <<"cjk_zuo","cjk_yan">>
S_NL       == <<"\n">>

\* the three values of pdf_info['eye']
EYE_OD      == "youyan(OD)"
EYE_OS      == "zuoyan(OS)"
EYE_UNKNOWN == "weizhi"

None == [none |-> TRUE]
IsNone(v) == "none" \in DOMAIN v

\* dict.get(key, default)
Get(d, key, default) == IF key \in DOMAIN d THEN d[key] ELSE default

(***************************************************************************)
(* The document as PyMuPDF presents it.  page.get_text() is the text of    *)
(* the page's spans, one line per span.                                    *)
(***************************************************************************)
RECURSIVE JoinLines(_)
JoinLines(spans) ==
    IF spans = <<>> THEN <<>>
    ELSE Head(spans).text \o S_NL \o JoinLines(Tail(spans))

get_text(page) == JoinLines(page.spans)

(***************************************************************************)
(* analyze_pdf_info                                                        *)
(***************************************************************************)
\* the find loop of one keyword: pos = find(kw); pos = find(kw, pos+len(kw))
RECURSIVE PositionsFrom(_, _, _)
PositionsFrom(s, kw, start) ==
    LET p == Find(s, kw, start)
    IN  IF p = -1 THEN {} ELSE {p} \cup PositionsFrom(s, kw, p + Len(kw))

keyword_positions(s, kws) ==
    UNION {PositionsFrom(s, kws[i], 0) : i \in DOMAIN kws}

count_fa(text_upper) ==
    Count(text_upper, S_FA_SP) + Count(text_upper, S_FA_NL)
    + Count(text_upper, S_FA_COLON) + Count(text_upper, S_FA_TAB)

count_icga(text_upper) == Count(text_upper, S_ICGA)

count_ir(text_upper) ==
    Count(text_upper, S_IR_SP) + Count(text_upper, S_IR_NL)
    + Count(text_upper, S_INFRARED)

right_positions(text) ==
    keyword_positions(Upper(text), <<S_OD, S_RIGHT_EYE_SELECTED, S_RIGHT_EYE>>)
    \cup keyword_positions(text, <<S_YOUYAN>>)

left_positions(text) ==
    keyword_positions(Upper(text), <<S_OS, S_LEFT_EYE_SELECTED, S_LEFT_EYE>>)
    \cup keyword_positions(text, <<S_ZUOYAN>>)

\* (a variant: when both sides occur the right eye wins)
document_eye_right_first(text) ==
    IF right_positions(text) # {} THEN EYE_OD
    ELSE IF left_positions(text) # {} THEN EYE_OS
    ELSE EYE_UNKNOWN

document_eye(text) ==
    LET rp == right_positions(text)
        lp == left_positions(text)
        has_od == rp # {}
        has_os == lp # {}
    IN  IF has_od /\ ~has_os THEN EYE_OD
        ELSE IF has_os /\ ~has_od THEN EYE_OS
        ELSE IF has_od /\ has_os
             THEN (IF SetMin(rp) < SetMin(lp) THEN EYE_OD ELSE EYE_OS)
        ELSE EYE_UNKNOWN

eye_selected_detected(text_upper) ==
    Contains(text_upper, S_RIGHT_EYE_SELECTED)
    \/ Contains(text_upper, S_LEFT_EYE_SELECTED)

\* (a variant: ICGA already on a tie with the FFA count)
pdf_type_of_tie(fa_count, icga_count, ir_count) ==
    IF icga_count > 0 /\ icga_count >= fa_count THEN "ICGA"
    ELSE IF fa_count > 0 /\ ir_count > 0 THEN "FFA+IR"
    ELSE IF fa_count > 0 THEN "FFA"
    ELSE IF ir_count > 0 THEN "IR"
    ELSE "MIXED"

\* (a variant: ICGA only beside a positive FFA count)
pdf_type_of_beside_ffa(fa_count, icga_count, ir_count) ==
    IF fa_count > 0 /\ icga_count > fa_count THEN "ICGA"
    ELSE IF fa_count > 0 /\ ir_count > 0 THEN "FFA+IR"
    ELSE IF fa_count > 0 THEN "FFA"
    ELSE IF ir_count > 0 THEN "IR"
    ELSE "MIXED"

\* the modality chain, entered when one of the three counts is positive
pdf_type_of(fa_count, icga_count, ir_count) ==
    LET has_ffa  == fa_count > 0
        has_icga == icga_count > 0
        has_ir   == ir_count > 0
    IN  IF has_icga /\ icga_count > fa_count THEN "ICGA"
        ELSE IF has_ffa /\ has_ir THEN "FFA+IR"
        ELSE IF has_ffa THEN "FFA"
        ELSE IF has_ir THEN "IR"
        ELSE "MIXED"

\* (a variant: the threshold itself counts as dark)
is_dark_inclusive(mean_brightness, brightness_threshold) ==
    mean_brightness <= brightness_threshold

\* is_ffa = mean_brightness < brightness_threshold
is_dark(mean_brightness, brightness_threshold) ==
    mean_brightness < brightness_threshold

\* the brightness fallback: the third image of page 1
brightness_fallback(page, brightness_threshold, eye_sel) ==
    IF Len(page.images) < 3 THEN None
    ELSE IF ~page.images[3].decodes THEN None
    ELSE LET is_ffa == is_dark(page.images[3].mean, brightness_threshold)
         IN  [type |-> IF is_ffa THEN "FFA" ELSE "UNKNOWN",
              eye |-> EYE_UNKNOWN,
              has_ffa |-> is_ffa,
              has_icga |-> FALSE,
              has_ir |-> FALSE,
              eye_selected_label |-> eye_sel]

\* the dict returned when one of the three counts is positive
keyword_verdict(fa_count, icga_count, ir_count, eye, eye_sel) ==
    [type |-> pdf_type_of(fa_count, icga_count, ir_count),
     eye |-> eye,
     has_ffa |-> fa_count > 0,
     has_icga |-> icga_count > 0,
     has_ir |-> ir_count > 0,
     fa_count |-> fa_count,
     icga_count |-> icga_count,
     ir_count |-> ir_count,
     eye_selected_label |-> eye_sel]

analyze_pdf_info(d, brightness_threshold) ==
    IF ~d.opens \/ Len(d.pages) = 0 THEN None
    ELSE
    LET page == d.pages[1]
        text == get_text(page)
        text_upper == Upper(text)
        fa_count == count_fa(text_upper)
        icga_count == count_icga(text_upper)
        ir_count == count_ir(text_upper)
        eye == document_eye(text)
        eye_sel == eye_selected_detected(text_upper)
    IN  IF fa_count > 0 \/ icga_count > 0 \/ ir_count > 0
        THEN keyword_verdict(fa_count, icga_count, ir_count, eye, eye_sel)
        ELSE brightness_fallback(page, brightness_threshold, eye_sel)

(***************************************************************************)
(* is_fa_icga_combined_image / crop_fa_from_combined_image                 *)
(* An image is its size [w, h].  width / height is compared with 1.8 and   *)
(* 2.2 exactly: 1.8 <= w/h <= 2.2 iff 18h <= 10w <= 22h for h > 0.         *)
(***************************************************************************)
is_combined_by_size(width, height) ==
    IF height > 0 THEN 18 * height <= 10 * width /\ 10 * width <= 22 * height
    ELSE FALSE

is_combined_by_pdf_info(info) ==
    IF IsNone(info) THEN FALSE
    ELSE LET has_ffa == Get(info, "has_ffa", FALSE)
             has_icga == Get(info, "has_icga", FALSE)
             fa_count == Get(info, "fa_count", 0)
             icga_count == Get(info, "icga_count", 0)
         IN  IF has_ffa /\ has_icga /\ fa_count > 0 /\ icga_count > 0
             THEN Abs(fa_count - icga_count) <= 1
             ELSE FALSE

\* (a variant: a frame of exactly 1000 pixels is not large enough)
is_large_enough_strict(width) == width > 1000

is_large_enough(width) == width >= 1000

is_fa_icga_combined_image(img, info) ==
    (is_combined_by_size(img.w, img.h) \/ is_combined_by_pdf_info(info))
    /\ is_large_enough(img.w)

\* (a variant: the crop box spans the whole width)
crop_whole_width(img) == [w |-> img.w, h |-> img.h]

crop_fa_from_combined_image(img) == [w |-> img.w \div 2, h |-> img.h]

\* the detect-and-crop step of both emission paths: the image that is
\* saved and the is_combined flag
split_if_combined(img, info) ==
    IF is_fa_icga_combined_image(img, info)
    THEN [image |-> crop_fa_from_combined_image(img), is_combined |-> TRUE]
    ELSE [image |-> img, is_combined |-> FALSE]

(***************************************************************************)
(* extract_ffa_images_from_pdf: the gate in front of the extraction        *)
(***************************************************************************)
\* (a variant: the explicit eye-selection label does not rescue a document)
gate_ignoring_label(info, extract_ir) ==
    IF IsNone(info) THEN "error"
    ELSE IF info.type = "ICGA" THEN "skipped"
    ELSE IF info.type = "IR" /\ ~extract_ir THEN "skipped"
    ELSE IF ~info.has_ffa /\ ~(extract_ir /\ info.has_ir) THEN "skipped"
    ELSE "extract"

\* "error", "skipped" or "extract" (the call goes on to mkdir and the pages)
gate(info, extract_ir) ==
    IF IsNone(info) THEN "error"
    ELSE IF info.type = "ICGA" THEN "skipped"
    ELSE IF info.type = "IR" /\ ~extract_ir THEN "skipped"
    ELSE IF /\ ~info.has_ffa
            /\ ~(extract_ir /\ info.has_ir)
            /\ ~Get(info, "eye_selected_label", FALSE)
         THEN "skipped"
    ELSE "extract"

(***************************************************************************)
(* extract_ffa_images_from_pdf: the span scan of one page                  *)
(***************************************************************************)
IsDigit(c) == c \in Range(Digits)

\* re: \(\d{2}:\d{2}\.\d{3}\) matched at 0-based index i
timestamp_at(s, i) ==
    /\ i + 11 <= Len(s)
    /\ s[i + 1] = "("
    /\ IsDigit(s[i + 2]) /\ IsDigit(s[i + 3])
    /\ s[i + 4] = ":"
    /\ IsDigit(s[i + 5]) /\ IsDigit(s[i + 6])
    /\ s[i + 7] = "."
    /\ IsDigit(s[i + 8]) /\ IsDigit(s[i + 9]) /\ IsDigit(s[i + 10])
    /\ s[i + 11] = ")"

\* re.search: the leftmost match, -1 when there is none
timestamp_search(s) ==
    LET hits == {i \in 0..Len(s) : timestamp_at(s, i)}
    IN  IF hits = {} THEN -1 ELSE SetMin(hits)

S_TIMESTAMP == <<"T","I","M","E","S","T","A","M","P">>

DefaultColumnEye == [eye |-> EYE_UNKNOWN, strength |-> "weak"]

\* (a variant: every signal overwrites, whatever its strength)
update_eye_always(eye_by_column, column, eye_label, strength) ==
    [eye_by_column EXCEPT ![column] =
        [eye |-> eye_label, strength |-> strength]]

update_eye(eye_by_column, column, eye_label, strength) ==
    IF strength = "strong" \/ eye_by_column[column].strength # "strong"
    THEN [eye_by_column EXCEPT ![column] =
              [eye |-> eye_label, strength |-> strength]]
    ELSE eye_by_column

\* bbox[0] < page_mid_x, page_mid_x = page.rect.width / 2
span_column(x, page_width) == IF 2 * x < page_width THEN 1 ELSE 2

\* the right-eye and then the left-eye update of one span
span_eye_update(eye_by_column, text_content, column_num) ==
    LET text_upper == Upper(text_content)
        after_right ==
            IF Contains(text_upper, S_RIGHT_EYE_SELECTED)
               \/ Contains(text_upper, S_RIGHT_EYE)
            THEN update_eye(eye_by_column, column_num, EYE_OD, "strong")
            ELSE IF Upper(Strip(text_content)) = S_OD
                    \/ Contains(text_content, S_YOUYAN)
            THEN update_eye(eye_by_column, column_num, EYE_OD, "weak")
            ELSE eye_by_column
    IN  IF Contains(text_upper, S_LEFT_EYE_SELECTED)
           \/ Contains(text_upper, S_LEFT_EYE)
        THEN update_eye(after_right, column_num, EYE_OS, "strong")
        ELSE IF Upper(Strip(text_content)) = S_OS
                \/ Contains(text_content, S_ZUOYAN)
        THEN update_eye(after_right, column_num, EYE_OS, "weak")
        ELSE after_right

is_timestamp_span(text_content) ==
    Contains(Upper(text_content), S_TIMESTAMP)
    \/ timestamp_search(text_content) # -1

is_label_span(text_content) ==
    LET text_upper == Upper(text_content)
    IN  Contains(text_upper, S_FA) \/ Contains(text_upper, S_IR)
        \/ Contains(text_upper, S_ICGA)

\* the loop over the spans of the page, in order
RECURSIVE scan_spans(_, _, _)
scan_spans(spans, page_width, acc) ==
    IF spans = <<>> THEN acc
    ELSE
    LET span == Head(spans)
        text_content == Strip(span.text)
        entry == [text |-> text_content, x |-> span.x, y |-> span.y]
    IN  IF text_content = <<>>
        THEN scan_spans(Tail(spans), page_width, acc)
        ELSE scan_spans(Tail(spans), page_width,
               [timestamp_entries |->
                    IF is_timestamp_span(text_content)
                    THEN Append(acc.timestamp_entries, entry)
                    ELSE acc.timestamp_entries,
                label_blocks |->
                    IF is_label_span(text_content)
                    THEN Append(acc.label_blocks, entry)
                    ELSE acc.label_blocks,
                eye_by_column |->
                    span_eye_update(acc.eye_by_column, text_content,
                                    span_column(span.x, page_width))])

normalize_eye(s) ==
    IF s = EYE_OD THEN "OD" ELSE IF s = EYE_OS THEN "OS" ELSE "unknown"

\* (a variant: the document-level eye fills only the unknown columns)
apply_document_eye_unknown_only(eye_by_column, info) ==
    IF info.eye \in {EYE_OD, EYE_OS}
    THEN [col \in DOMAIN eye_by_column |->
            IF eye_by_column[col].eye = EYE_UNKNOWN
            THEN [eye |-> info.eye, strength |-> "default"]
            ELSE eye_by_column[col]]
    ELSE eye_by_column

\* the document-level default applied after the span scan
apply_document_eye(eye_by_column, info) ==
    LET pdf_eye_norm == normalize_eye(info.eye)
        has_strong_conflict ==
            \E col \in DOMAIN eye_by_column :
                /\ eye_by_column[col].strength = "strong"
                /\ normalize_eye(eye_by_column[col].eye)
                      \notin {"unknown", pdf_eye_norm}
    IN  IF pdf_eye_norm \in {"OD", "OS"}
        THEN IF ~has_strong_conflict
             THEN [col \in DOMAIN eye_by_column |->
                     IF eye_by_column[col].strength # "strong"
                     THEN [eye |-> IF pdf_eye_norm = "OD" THEN EYE_OD
                                   ELSE EYE_OS,
                           strength |-> "default"]
                     ELSE eye_by_column[col]]
             ELSE eye_by_column
        ELSE IF info.eye \in {EYE_OD, EYE_OS}
             THEN [col \in DOMAIN eye_by_column |->
                     IF eye_by_column[col].eye = EYE_UNKNOWN
                     THEN [eye |-> info.eye, strength |-> "default"]
                     ELSE eye_by_column[col]]
             ELSE eye_by_column

\* the page's lists and eye_by_column before the span scan
EmptyScan ==
    [timestamp_entries |-> <<>>,
     label_blocks |-> <<>>,
     eye_by_column |-> [col \in {1, 2} |-> DefaultColumnEye]]

resolve_column_eyes(page, info) ==
    LET scanned == scan_spans(page.spans, page.width, EmptyScan)
    IN  [scanned EXCEPT !.eye_by_column =
             apply_document_eye(scanned.eye_by_column, info)]

(***************************************************************************)
(* extract_ffa_images_from_pdf: frame discovery on one page                *)
(***************************************************************************)
STANDARD_MIN_WIDTH  == 300
STANDARD_MIN_HEIGHT == 300
RELAXED_MIN_WIDTH   == 200
RELAXED_MIN_HEIGHT  == 180
STRIPE_MIN_WIDTH    == 1000
STRIPE_MAX_HEIGHT   == 120

\* (a variant: both limits are inclusive)
is_stripe_candidate_inclusive(width, height) ==
    width >= STRIPE_MIN_WIDTH /\ height <= STRIPE_MAX_HEIGHT

is_stripe_candidate(width, height) ==
    width > STRIPE_MIN_WIDTH /\ height < STRIPE_MAX_HEIGHT

is_standard_candidate(width, height, info) ==
    LET relaxed == Get(info, "eye_selected_label", FALSE)
        min_width == IF relaxed THEN RELAXED_MIN_WIDTH ELSE STANDARD_MIN_WIDTH
        min_height == IF relaxed THEN RELAXED_MIN_HEIGHT
                      ELSE STANDARD_MIN_HEIGHT
    IN  width >= min_width /\ height >= min_height

\* (img_rect.x0 + img_rect.x1) / 2 < page_mid_x
rect_column(rect, page_width) ==
    IF rect.x0 + rect.x1 < page_width THEN 1 ELSE 2

\* the placements of one image, as candidate entries
\* (id = <<image index, placement index>> identifies the placement)
RECURSIVE image_entries(_, _, _, _, _)
image_entries(img, img_index, rects, k, page_width) ==
    IF k > Len(rects) THEN <<>>
    ELSE <<[rect |-> rects[k],
            pil_image |-> [w |-> img.w, h |-> img.h],
            ext |-> img.ext,
            column |-> rect_column(rects[k], page_width),
            saves |-> Get(img, "saves", TRUE),
            id |-> <<img_index, k>>]>>
         \o image_entries(img, img_index, rects, k + 1, page_width)

\* the loop over image_list: [standard, stripes], stripes in append order
RECURSIVE collect_candidates(_, _, _, _, _)
collect_candidates(images, img_index, page_width, info, acc) ==
    IF img_index > Len(images) THEN acc
    ELSE
    LET img == images[img_index]
        entries == image_entries(img, img_index, img.rects, 1, page_width)
        next == img_index + 1
    IN  IF ~img.decodes \/ img.rects = <<>>
        THEN collect_candidates(images, next, page_width, info, acc)
        ELSE IF is_stripe_candidate(img.w, img.h)
        THEN collect_candidates(images, next, page_width, info,
                 [acc EXCEPT !.stripes = acc.stripes \o entries])
        ELSE IF is_standard_candidate(img.w, img.h, info)
        THEN collect_candidates(images, next, page_width, info,
                 [acc EXCEPT !.standard = acc.standard \o entries])
        ELSE collect_candidates(images, next, page_width, info, acc)

\* the keys of stripes_by_column, in insertion order
RECURSIVE column_order(_)
column_order(stripes) ==
    IF stripes = <<>> THEN <<>>
    ELSE LET c == Head(stripes).column
             later == column_order(Tail(stripes))
         IN  <<c>> \o SelectSeq(later, LAMBDA d : d # c)

\* sorted(rect_list, key=y0): a stable insertion sort
RECURSIVE insert_sorted(_, _)
insert_sorted(sorted, item) ==
    IF sorted = <<>> THEN <<item>>
    ELSE IF item.rect.y0 < Head(sorted).rect.y0
         THEN <<item>> \o sorted
         ELSE <<Head(sorted)>> \o insert_sorted(Tail(sorted), item)

RECURSIVE sort_by_y0(_)
sort_by_y0(items) ==
    IF items = <<>> THEN <<>>
    ELSE insert_sorted(sort_by_y0(SubSeq(items, 1, Len(items) - 1)),
                       items[Len(items)])

STRIPE_GAP == 10

\* (a variant: a gap of exactly the tolerance already splits)
starts_new_group_at_gap(prev_item, item) ==
    item.rect.y0 - prev_item.rect.y0 >= STRIPE_GAP

\* item starts a new group after prev_item
starts_new_group(prev_item, item) ==
    item.rect.y0 - prev_item.rect.y0 > STRIPE_GAP

\* the zip loop over a sorted, non-empty rect list; groups in order
RECURSIVE split_groups(_, _, _)
split_groups(sorted, k, acc) ==
    IF k > Len(sorted) THEN acc
    ELSE IF starts_new_group(sorted[k - 1], sorted[k])
         THEN split_groups(sorted, k + 1, Append(acc, <<sorted[k]>>))
         ELSE split_groups(sorted, k + 1,
                  [acc EXCEPT ![Len(acc)] = Append(acc[Len(acc)], sorted[k])])

group_stripes(rect_list) ==
    LET sorted == sort_by_y0(rect_list)
    IN  split_groups(sorted, 2, <<<<sorted[1]>>>>)

\* the groups of every column, in emission order, each with col and index
RECURSIVE number_groups(_, _, _)
number_groups(groups, col_num, idx) ==
    IF idx > Len(groups) THEN <<>>
    ELSE <<[col |-> col_num, idx |-> idx, group |-> groups[idx]]>>
         \o number_groups(groups, col_num, idx + 1)

RECURSIVE stripe_groups(_, _)
stripe_groups(stripes, cols) ==
    IF cols = <<>> THEN <<>>
    ELSE LET col_num == Head(cols)
             rect_list == SelectSeq(stripes, LAMBDA e : e.column = col_num)
         IN  number_groups(group_stripes(rect_list), col_num, 1)
             \o stripe_groups(stripes, Tail(cols))

(***************************************************************************)
(* extract_ffa_images_from_pdf: labels and file names                      *)
(***************************************************************************)
LABEL_Y_RANGE == 60

\* the loop over label_blocks: the first block of least x distance among
\* those whose y distance is below the range; "" when there is none
RECURSIVE nearest_label(_, _, _, _, _)
nearest_label(label_blocks, img_x, img_y, min_distance, label) ==
    IF label_blocks = <<>> THEN label
    ELSE
    LET lb == Head(label_blocks)
        y_distance == Abs(lb.y - img_y)
        x_distance == Abs(lb.x - img_x)
    IN  IF y_distance < LABEL_Y_RANGE
           /\ (min_distance = -1 \/ x_distance < min_distance)
        THEN nearest_label(Tail(label_blocks), img_x, img_y,
                           x_distance, lb.text)
        ELSE nearest_label(Tail(label_blocks), img_x, img_y,
                           min_distance, label)

find_label(label_blocks, rect) ==
    nearest_label(label_blocks, rect.x0, rect.y0, -1, <<>>)

\* \w of the re module, for the characters the model uses
IsWordChar(c) ==
    c \in Range(LowerLetters) \cup Range(UpperLetters) \cup Range(Digits)
          \cup {"_", "cjk_you", "cjk_zuo", "cjk_yan"}

\* (a variant: the colon is not in the allowed class)
sub_disallowed_colon(s) ==
    [i \in 1..Len(s) |->
        IF IsWordChar(s[i]) \/ s[i] \in {"-", "_", "."}
        THEN s[i] ELSE "_"]

\* re.sub(r'[^\w\-_\.\:]', '_', s)
sub_disallowed(s) ==
    [i \in 1..Len(s) |->
        IF IsWordChar(s[i]) \/ s[i] \in {"-", "_", ".", ":"}
        THEN s[i] ELSE "_"]

sanitize_label(label) ==
    IF label = <<>> THEN <<>>
    ELSE sub_disallowed(
           Replace(Replace(Replace(Replace(label,
               <<" ">>, <<"_">>),
               <<"deg_sign">>, <<"d","e","g">>),
               <<"[">>, <<>>),
               <<"]">>, <<>>))

S_unknown == <<"u","n","k","n","o","w","n">>
S_pdf     == <<"_","p","d","f">>
S_page    == <<"_","p","a","g","e">>
S_col     == <<"_","c","o","l">>
S_img     == <<"_","i","m","g">>
S_combine == <<"_","c","o","m","b","i","n","e">>
S_no_time == <<"n","o","-","t","i","m","e">>
S_png     == <<"p","n","g">>
S_jpeg    == <<"j","p","e","g">>
S_FA_     == <<"F","A","_">>

eye_chars(eye_str) ==
    IF eye_str = "OD" THEN S_OD
    ELSE IF eye_str = "OS" THEN S_OS ELSE S_unknown

\* label_clean after the combined-image renaming
combined_label(label_clean) ==
    IF label_clean # <<>>
    THEN IF ~Contains(Upper(label_clean), S_FA)
         THEN S_FA_ \o label_clean ELSE label_clean
    ELSE S_FA

\* (a variant: the document index is left out of the name)
standard_name_no_index(eye_str, pdf_index, page_no, label_clean, is_combined, next_index, ext) ==
    LET combine_suffix == IF is_combined THEN S_combine ELSE <<>>
        stem == eye_chars(eye_str) \o S_page \o IntToStr(page_no)
    IN  IF label_clean # <<>>
        THEN stem \o <<"_">> \o label_clean \o combine_suffix
             \o <<".">> \o ext
        ELSE stem \o S_img \o IntToStr(next_index) \o combine_suffix
             \o <<".">> \o ext

\* (a variant: the composite suffix is never appended)
standard_name_no_suffix(eye_str, pdf_index, page_no, label_clean, is_combined, next_index, ext) ==
    LET stem == eye_chars(eye_str) \o S_pdf \o IntToStr(pdf_index)
                \o S_page \o IntToStr(page_no)
    IN  IF label_clean # <<>>
        THEN stem \o <<"_">> \o label_clean \o <<".">> \o ext
        ELSE stem \o S_img \o IntToStr(next_index) \o <<".">> \o ext

\* output_name of a standard frame
standard_name(eye_str, pdf_index, page_no, label_clean, is_combined, next_index, ext) ==
    LET combine_suffix == IF is_combined THEN S_combine ELSE <<>>
        stem == eye_chars(eye_str) \o S_pdf \o IntToStr(pdf_index)
                \o S_page \o IntToStr(page_no)
    IN  IF label_clean # <<>>
        THEN stem \o <<"_">> \o label_clean \o combine_suffix
             \o <<".">> \o ext
        ELSE stem \o S_img \o IntToStr(next_index) \o combine_suffix
             \o <<".">> \o ext

\* output_name of a stripe group
stripe_name(eye_str, pdf_index, page_no, col_num, idx_in_col, timestamp, is_combined) ==
    eye_chars(eye_str) \o S_pdf \o IntToStr(pdf_index)
    \o S_page \o IntToStr(page_no)
    \o S_col \o IntToStr(col_num) \o S_img \o IntToStr(idx_in_col)
    \o <<"_">> \o timestamp
    \o (IF is_combined THEN S_combine ELSE <<>>) \o <<".">> \o S_png

\* (a variant: an unlabelled frame is numbered after the files already in
\* the output directory)
emit_standard_counting_dir(candidate, scanned, info, pdf_index, page_no, total) ==
    LET label == IF scanned.label_blocks # <<>>
                 THEN find_label(scanned.label_blocks, candidate.rect)
                 ELSE <<>>
        clean0 == sanitize_label(label)
        eye_str == normalize_eye(scanned.eye_by_column[candidate.column].eye)
        split == split_if_combined(candidate.pil_image, info)
        label_clean == IF split.is_combined THEN combined_label(clean0)
                       ELSE clean0
    IN  [filename |-> standard_name(eye_str, pdf_index, page_no, label_clean,
                                    split.is_combined,
                                    Len(out_dir.written) + 1, candidate.ext),
         label |-> label,
         width |-> split.image.w,
         height |-> split.image.h,
         format |-> candidate.ext,
         kind |-> "standard",
         page |-> page_no,
         column |-> candidate.column,
         eye |-> eye_str,
         combined |-> split.is_combined,
         source |-> candidate.pil_image,
         rect |-> candidate.rect]

\* one standard candidate: the manifest entry (filename, label, width,
\* height, format), with the facts of the emission the entry does not
\* carry (kind, page, column, eye, combined, source) kept beside it
emit_standard(candidate, scanned, info, pdf_index, page_no, total) ==
    LET label == IF scanned.label_blocks # <<>>
                 THEN find_label(scanned.label_blocks, candidate.rect)
                 ELSE <<>>
        clean0 == sanitize_label(label)
        eye_str == normalize_eye(scanned.eye_by_column[candidate.column].eye)
        split == split_if_combined(candidate.pil_image, info)
        is_combined == split.is_combined
        saved == split.image
        label_clean == IF is_combined THEN combined_label(clean0) ELSE clean0
    IN  [filename |-> standard_name(eye_str, pdf_index, page_no, label_clean,
                                    is_combined, total + 1, candidate.ext),
         label |-> label,
         width |-> saved.w,
         height |-> saved.h,
         format |-> candidate.ext,
         kind |-> "standard",
         page |-> page_no,
         column |-> candidate.column,
         eye |-> eye_str,
         combined |-> is_combined,
         source |-> candidate.pil_image,
         rect |-> candidate.rect]

(***************************************************************************)
(* extract_ffa_images_from_pdf: stripe groups                              *)
(* Lengths of the clip rectangle are kept in half points (pad = 1.5).      *)
(***************************************************************************)
PAD_HALF == 3

group_bounds(group) ==
    [min_x |-> SetMin({group[i].rect.x0 : i \in DOMAIN group}),
     max_x |-> SetMax({group[i].rect.x1 : i \in DOMAIN group}),
     min_y |-> SetMin({group[i].rect.y0 : i \in DOMAIN group}),
     max_y |-> SetMax({group[i].rect.y1 : i \in DOMAIN group})]

\* clip_rect after padding and clamping to page.rect, in half points
clip_rect_half(b, page) ==
    [x0 |-> Max2(0, 2 * b.min_x - PAD_HALF),
     y0 |-> Max2(0, 2 * b.min_y - PAD_HALF),
     x1 |-> Min2(2 * page.width, 2 * b.max_x + PAD_HALF),
     y1 |-> Min2(2 * page.height, 2 * b.max_y + PAD_HALF)]

FloorDiv(a, b) == a \div b
CeilDiv(a, b) == (a + b - 1) \div b

\* the pixmap of the clip at zoom = max(2.0, min(4.0, 1000.0 / clip_width)):
\* the transformed clip rounded outwards to whole pixels
rendered_size(clip) ==
    LET cw == clip.x1 - clip.x0            \* 2 * clip_width
        Lo(v) == IF cw <= 500 THEN 2 * v       \* zoom 4
                 ELSE IF cw >= 1000 THEN v     \* zoom 2
                 ELSE FloorDiv(1000 * v, cw)   \* zoom 1000 / clip_width
        Hi(v) == IF cw <= 500 THEN 2 * v
                 ELSE IF cw >= 1000 THEN v
                 ELSE CeilDiv(1000 * v, cw)
    IN  [w |-> Hi(clip.x1) - Lo(clip.x0), h |-> Hi(clip.y1) - Lo(clip.y0)]

\* the loop over timestamp_entries of one group
RECURSIVE closest_timestamp(_, _, _, _, _, _)
closest_timestamp(entries, col_num, page_width, center2, min_dist2, best) ==
    IF entries = <<>> THEN best
    ELSE
    LET ts == Head(entries)
        ts_col == span_column(ts.x, page_width)
        dist2 == Abs(2 * ts.y - center2)
        m == timestamp_search(ts.text)
    IN  IF ts_col # col_num
        THEN closest_timestamp(Tail(entries), col_num, page_width, center2,
                               min_dist2, best)
        ELSE IF min_dist2 = -1 \/ dist2 < min_dist2
        THEN closest_timestamp(Tail(entries), col_num, page_width, center2,
                 dist2,
                 IF m # -1
                 THEN Replace(SubSeq(ts.text, m + 2, m + 10), <<":">>, <<"-">>)
                 ELSE best)
        ELSE closest_timestamp(Tail(entries), col_num, page_width, center2,
                               min_dist2, best)

\* one stripe group: the manifest entry and the saved image
emit_stripe(g, scanned, info, page, pdf_index, page_no) ==
    LET b == group_bounds(g.group)
        rendered == rendered_size(clip_rect_half(b, page))
        split == split_if_combined(rendered, info)
        is_combined == split.is_combined
        saved == split.image
        ts == closest_timestamp(scanned.timestamp_entries, g.col, page.width,
                                b.min_y + b.max_y, -1, S_no_time)
        eye_str == normalize_eye(scanned.eye_by_column[g.col].eye)
    IN  [filename |-> stripe_name(eye_str, pdf_index, page_no, g.col, g.idx,
                                  ts, is_combined),
         label |-> Tail(S_col) \o IntToStr(g.col) \o S_img \o IntToStr(g.idx),
         width |-> saved.w,
         height |-> saved.h,
         format |-> S_png,
         kind |-> "stripe",
         page |-> page_no,
         column |-> g.col,
         eye |-> eye_str,
         combined |-> is_combined,
         timestamp |-> ts,
         source |-> rendered,
         rect |-> [x0 |-> b.min_x, y0 |-> b.min_y,
                   x1 |-> b.max_x, y1 |-> b.max_y]]

(***************************************************************************)
(* extract_ffa_images_from_pdf as a state machine.                         *)
(*   pc: "start" -> "gate" -> "page" -> "emit" -> ... -> "done"            *)
(***************************************************************************)
NoPage == [scanned |-> None, standard |-> <<>>, stripes |-> <<>>,
           groups |-> <<>>, has_stripes |-> FALSE, si |-> 1, gi |-> 1]

NoDir == [created |-> FALSE, written |-> <<>>]

FfaIdle ==
    /\ doc = None
    /\ opts = None
    /\ pc = "idle"
    /\ pdf_info = None
    /\ page_num = 0
    /\ page_state = NoPage
    /\ total_images = 0
    /\ images_info = <<>>
    /\ out_dir = NoDir
    /\ result = None

\* the call: pdf_path and the keyword arguments
FfaCall(d, o) ==
    /\ doc = d
    /\ opts = o
    /\ pc = "start"
    /\ pdf_info = None
    /\ page_num = 0
    /\ page_state = NoPage
    /\ total_images = 0
    /\ images_info = <<>>
    /\ out_dir = NoDir
    /\ result = None

Analyze ==
    /\ pc = "start"
    /\ pdf_info' = analyze_pdf_info(doc, opts.brightness_threshold)
    /\ pc' = "gate"
    /\ UNCHANGED <<doc, opts, page_num, page_state, total_images,
                   images_info, out_dir, result, comb, oct, par, proc>>

Gate ==
    /\ pc = "gate"
    /\ LET g == gate(pdf_info, opts.extract_ir)
       IN  IF g = "error"
           THEN /\ result' = [status |-> "error"]
                /\ pc' = "done"
                /\ out_dir' = out_dir
           ELSE IF g = "skipped"
           THEN /\ result' = [status |-> "skipped", type |-> pdf_info.type,
                              eye |-> pdf_info.eye]
                /\ pc' = "done"
                /\ out_dir' = out_dir
           ELSE /\ out_dir' = [out_dir EXCEPT !.created = TRUE]
                /\ pc' = "page"
                /\ result' = result
    /\ UNCHANGED <<doc, opts, pdf_info, page_num, page_state, total_images,
                   images_info, comb, oct, par, proc>>

\* an exception leaves extract_ffa_images_from_pdf: nothing is returned
Raised == [status |-> "exception", raised |-> TRUE]

\* doc.extract_image(xref), line 358, is outside the try of the image loop
extract_image_raises(images) ==
    \E i \in DOMAIN images : ~Get(images[i], "reads", TRUE)

\* (a variant: the page is never taken for a page of stripes)
has_stripes_never(stripes) == FALSE

\* any(rect_list for rect_list in stripes_by_column.values()), line 399
has_stripes(stripes) == stripes # <<>>

\* the head of the page loop: the span scan and the frame discovery
ScanPage ==
    /\ pc = "page"
    /\ page_num < Len(doc.pages)
    /\ LET page == doc.pages[page_num + 1]
           cands == collect_candidates(page.images, 1, page.width, pdf_info,
                                       [standard |-> <<>>, stripes |-> <<>>])
       IN  IF extract_image_raises(page.images)
           THEN /\ result' = Raised
                /\ pc' = "done"
                /\ page_state' = page_state
           ELSE /\ page_state' =
                     [scanned |-> resolve_column_eyes(page, pdf_info),
                      standard |-> cands.standard,
                      stripes |-> cands.stripes,
                      groups |-> stripe_groups(cands.stripes,
                                               column_order(cands.stripes)),
                      has_stripes |-> has_stripes(cands.stripes),
                      si |-> 1, gi |-> 1]
                /\ pc' = "emit"
                /\ result' = result
    /\ UNCHANGED <<doc, opts, pdf_info, page_num, total_images, images_info,
                   out_dir, comb, oct, par, proc>>

\* (a variant: the newest entry is put at the head of the manifest)
Save_at_head(entry) ==
    /\ out_dir' = [out_dir EXCEPT !.written = Append(@, entry.filename)]
    /\ total_images' = total_images + 1
    /\ images_info' = <<entry>> \o images_info

Save(entry) ==
    /\ out_dir' = [out_dir EXCEPT !.written = Append(@, entry.filename)]
    /\ total_images' = total_images + 1
    /\ images_info' = Append(images_info, entry)

\* one pass of the loop over standard_candidates; pil_image.save, line 448,
\* is in no try
EmitStandard ==
    /\ pc = "emit"
    /\ ~page_state.has_stripes
    /\ page_state.si <= Len(page_state.standard)
    /\ IF page_state.standard[page_state.si].saves
       THEN /\ Save(emit_standard(page_state.standard[page_state.si],
                                  page_state.scanned, pdf_info,
                                  opts.pdf_index, page_num + 1,
                                  total_images))
            /\ page_state' = [page_state EXCEPT !.si = @ + 1]
            /\ UNCHANGED <<pc, result>>
       ELSE /\ result' = Raised
            /\ pc' = "done"
            /\ UNCHANGED <<page_state, out_dir, total_images, images_info>>
    /\ UNCHANGED <<doc, opts, pdf_info, page_num, comb, oct, par, proc>>

EmitStripe ==
    /\ pc = "emit"
    /\ page_state.has_stripes
    /\ page_state.gi <= Len(page_state.groups)
    /\ Save(emit_stripe(page_state.groups[page_state.gi], page_state.scanned,
                        pdf_info, doc.pages[page_num + 1], opts.pdf_index,
                        page_num + 1))
    /\ page_state' = [page_state EXCEPT !.gi = @ + 1]
    /\ UNCHANGED <<doc, opts, pc, pdf_info, page_num, result, comb, oct, par, proc>>

EndPage ==
    /\ pc = "emit"
    /\ IF page_state.has_stripes
       THEN page_state.gi > Len(page_state.groups)
       ELSE page_state.si > Len(page_state.standard)
    /\ page_num' = page_num + 1
    /\ pc' = "page"
    /\ UNCHANGED <<doc, opts, pdf_info, page_state, total_images,
                   images_info, out_dir, result, comb, oct, par, proc>>

Return ==
    /\ pc = "page"
    /\ page_num = Len(doc.pages)
    /\ result' = [status |-> "success", type |-> pdf_info.type,
                  eye |-> pdf_info.eye, num_images |-> total_images,
                  images |-> images_info, has_ffa |-> pdf_info.has_ffa,
                  has_ir |-> Get(pdf_info, "has_ir", FALSE)]
    /\ pc' = "done"
    /\ UNCHANGED <<doc, opts, pdf_info, page_num, page_state, total_images,
                   images_info, out_dir, comb, oct, par, proc>>

NextFfa ==
    \/ Analyze
    \/ Gate
    \/ ScanPage
    \/ EmitStandard
    \/ EmitStripe
    \/ EndPage
    \/ Return

(***************************************************************************)
(* Inputs.  Sequences of at most n elements of S.                          *)
(***************************************************************************)
SeqsUpTo(S, n) == UNION {[1..k -> S] : k \in 0..n}

Span(text, x, y) == [text |-> text, x |-> x, y |-> y]
Rect(x0, y0, x1, y1) == [x0 |-> x0, y0 |-> y0, x1 |-> x1, y1 |-> y1]
Image(w, h, ext, rects, mean, decodes) ==
    [w |-> w, h |-> h, ext |-> ext, rects |-> rects, mean |-> mean,
     decodes |-> decodes]
Page(spans, images) ==
    [width |-> 600, height |-> 800, spans |-> spans,
     images |-> images]
Doc(pages) == [opens |-> TRUE, pages |-> pages]
Opts(extract_ir, pdf_index, threshold) ==
    [extract_ir |-> extract_ir, pdf_index |-> pdf_index,
     brightness_threshold |-> threshold]

DEFAULT_THRESHOLD == 80

\* the title and the logo that precede the first medical image
Logo == Image(120, 40, S_png, <<Rect(20, 10, 80, 30)>>, 200, TRUE)
Logos == <<Logo, Logo>>

ColumnX0(col) == IF col = 1 THEN 20 ELSE 320

\* a frame of w x h pixels placed at the top of a column
Frame(w, h, col, y0, mean, decodes) ==
    Image(w, h, S_png,
          <<Rect(ColumnX0(col), y0, ColumnX0(col) + 260, y0 + 90)>>,
          mean, decodes)

\* a stripe tile placed in a column with its top edge at y0
Stripe(col, y0) ==
    Image(1040, 16, S_png,
          <<Rect(ColumnX0(col), y0, ColumnX0(col) + 260, y0 + 4)>>,
          10, TRUE)

(***************************************************************************)
(* SpecClassify: documents whose page-1 text and images vary, handed to    *)
(* extract_ffa_images_from_pdf.                                            *)
(***************************************************************************)
MaxSpans == 3

ClassifyTexts == {S_FA, S_ICGA, S_IR, S_RIGHT_EYE_SELECTED}

ClassifySpans ==
    {[i \in DOMAIN ts |-> Span(ts[i], 50, 100 + 20 * i)] :
        ts \in SeqsUpTo(ClassifyTexts, MaxSpans)}

ClassifyImages ==
    {<<>>, Logos}
    \cup {Logos \o <<Frame(1200, 400, 1, 100, m, TRUE)>> : m \in {79, 80, 81}}
    \cup {Logos \o <<Frame(1200, 400, 1, 100, 79, FALSE)>>}
    \cup {Logos \o <<Stripe(1, 100), Stripe(1, 104)>>}

InitClassify ==
    /\ \E spans \in ClassifySpans, images \in ClassifyImages,
          extract_ir \in BOOLEAN, threshold \in {DEFAULT_THRESHOLD, 81} :
          FfaCall(Doc(<<Page(spans, images)>>),
                  Opts(extract_ir, 1, threshold))
    /\ comb = None
    /\ oct = None
    /\ par = None
    /\ proc = None

SpecClassify == InitClassify /\ [][NextFfa]_vars

\* the keyword counts of page 1, read off the document
Page1Upper == Upper(get_text(doc.pages[1]))
FaCount   == count_fa(Page1Upper)
IcgaCount == count_icga(Page1Upper)
IrCount   == count_ir(Page1Upper)
EyeSelected == eye_selected_detected(Page1Upper)
Classified == pc \notin {"idle", "start"}

SomeCountPositive == FaCount > 0 \/ IcgaCount > 0 \/ IrCount > 0
Page1Images == doc.pages[1].images

\* C1: when one of the FFA, ICGA and IR keyword counts of page 1 is
\* positive, the modality is ICGA if the ICGA count strictly exceeds the FFA
\* count, else FFA+IR if FFA and IR are both positive, else FFA if FFA is
\* positive, else IR if IR is positive, else MIXED; so FFA+IR needs both
\* counts positive, and FFA count > ICGA count > 0 gives FFA or FFA+IR.
C1_ModalityChain ==
    (Classified /\ SomeCountPositive) =>
        /\ ~IsNone(pdf_info)
        /\ pdf_info.type =
              IF IcgaCount > FaCount THEN "ICGA"
              ELSE IF FaCount > 0 /\ IrCount > 0 THEN "FFA+IR"
              ELSE IF FaCount > 0 THEN "FFA"
              ELSE IF IrCount > 0 THEN "IR"
              ELSE "MIXED"
        /\ (pdf_info.type = "FFA+IR" => FaCount > 0 /\ IrCount > 0)
        /\ (FaCount > IcgaCount /\ IcgaCount > 0
               => pdf_info.type \in {"FFA", "FFA+IR"})

C1_Witness ==
    /\ Classified
    /\ FaCount > IcgaCount /\ IcgaCount > 0
    /\ pdf_info.type = "FFA"

HasVerdict == ~IsNone(pdf_info)
IrOnly == IrCount > 0 /\ FaCount = 0 /\ IcgaCount = 0
VerdictFlag(flag) == HasVerdict /\ pdf_info[flag]

\* C2 as stated: ICGA count > FFA count gives modality ICGA and status
\* skipped whatever extract_ir and the eye-selection flag are; an IR-only
\* document is skipped unless extract_ir is set; every document with neither
\* FFA nor IR positive and no explicit eye-selection label is skipped (not
\* error); and skipped is returned in no other case.
C2_AsStated ==
    pc = "done" =>
        /\ (IcgaCount > FaCount
               => pdf_info.type = "ICGA" /\ result.status = "skipped")
        /\ result.status = "skipped" <=>
              \/ IcgaCount > FaCount
              \/ IrOnly /\ ~opts.extract_ir
              \/ /\ ~VerdictFlag("has_ffa")
                 /\ ~VerdictFlag("has_ir")
                 /\ ~EyeSelected

\* C2 (amended): as C2, the third case being every document that the
\* classifier gives a verdict with neither has_ffa nor has_ir set and no
\* explicit eye-selection label; a document without a verdict ends in
\* status error, never skipped.
C2_SkipPolicy ==
    pc = "done" =>
        /\ (IcgaCount > FaCount
               => pdf_info.type = "ICGA" /\ result.status = "skipped")
        /\ result.status = "skipped" <=>
              /\ HasVerdict
              /\ \/ IcgaCount > FaCount
                 \/ IrOnly /\ ~opts.extract_ir
                 \/ /\ ~pdf_info.has_ffa
                    /\ ~pdf_info.has_ir
                    /\ ~EyeSelected
        /\ (~HasVerdict => result.status = "error")

C2_Witness ==
    /\ pc = "done"
    /\ result.status = "skipped"
    /\ HasVerdict
    /\ pdf_info.type = "UNKNOWN"
    /\ ~EyeSelected

BrightnessVerdict ==
    /\ HasVerdict
    /\ pdf_info.eye = EYE_UNKNOWN
    /\ pdf_info.type =
          IF Page1Images[3].mean < opts.brightness_threshold
          THEN "FFA" ELSE "UNKNOWN"

NoVerdictIsError ==
    /\ ~HasVerdict
    /\ (pc = "done" => result.status = "error")

\* C3 as stated: with no keyword count positive, fewer than three frames
\* on page 1 give no verdict and status error; otherwise the verdict has
\* unknown eye and is FFA exactly when the mean intensity of the third frame
\* is strictly below the threshold, UNKNOWN otherwise.
C3_AsStated ==
    (Classified /\ ~SomeCountPositive) =>
        IF Len(Page1Images) < 3 THEN NoVerdictIsError ELSE BrightnessVerdict

\* C3 (amended): with no keyword count positive, fewer than three frames
\* on page 1, or a third frame that cannot be decoded, give no verdict and
\* status error; otherwise the verdict has unknown eye and is FFA exactly
\* when the mean intensity of the third frame is strictly below the
\* threshold, UNKNOWN otherwise.
C3_BrightnessFallback ==
    (Classified /\ ~SomeCountPositive) =>
        IF Len(Page1Images) < 3 \/ ~Page1Images[3].decodes
        THEN NoVerdictIsError ELSE BrightnessVerdict

C3_Witness ==
    /\ pc = "done"
    /\ ~SomeCountPositive
    /\ Len(Page1Images) >= 3
    /\ Page1Images[3].mean = opts.brightness_threshold
    /\ pdf_info.type = "UNKNOWN"

(***************************************************************************)
(* SpecCombined: is_fa_icga_combined_image, the detect-and-crop step of    *)
(* the emission, and the detector applied again to what was saved.         *)
(***************************************************************************)
MaxCount == 3

CombWidths  == {900, 999, 1000, 1100, 1101, 1799, 1800, 2000, 2200, 2201, 4000}
CombHeights == {500, 1000}

\* the results analyze_pdf_info can return, and the default pdf_info=None
CombInfos ==
    {None}
    \cup {keyword_verdict(c[1], c[2], c[3], EYE_UNKNOWN, FALSE) :
            c \in {t \in (0..MaxCount) \X (0..MaxCount) \X (0..1) :
                      t[1] + t[2] + t[3] > 0}}
    \cup {[type |-> "FFA", eye |-> EYE_UNKNOWN, has_ffa |-> TRUE,
           has_icga |-> FALSE, has_ir |-> FALSE,
           eye_selected_label |-> FALSE]}

InitCombined ==
    /\ FfaIdle
    /\ oct = None
    /\ par = None
    /\ proc = None
    /\ \E w \in CombWidths, h \in CombHeights, info \in CombInfos :
          comb = [stage |-> "frame", img |-> [w |-> w, h |-> h],
                  info |-> info, detected |-> FALSE,
                  split |-> None, again |-> FALSE]

CombDetect ==
    /\ comb.stage = "frame"
    /\ comb' = [comb EXCEPT
                  !.stage = "detected",
                  !.detected = is_fa_icga_combined_image(comb.img, comb.info)]
    /\ UNCHANGED <<ffa_vars, oct, par, proc>>

CombSplit ==
    /\ comb.stage = "detected"
    /\ comb' = [comb EXCEPT
                  !.stage = "split",
                  !.split = split_if_combined(comb.img, comb.info)]
    /\ UNCHANGED <<ffa_vars, oct, par, proc>>

CombRecheck ==
    /\ comb.stage = "split"
    /\ comb' = [comb EXCEPT
                  !.stage = "rechecked",
                  !.again = is_fa_icga_combined_image(comb.split.image,
                                                      comb.info)]
    /\ UNCHANGED <<ffa_vars, oct, par, proc>>

NextCombined == CombDetect \/ CombSplit \/ CombRecheck

SpecCombined == InitCombined /\ [][NextCombined]_vars

CombFa   == Get(comb.info, "fa_count", 0)
CombIcga == Get(comb.info, "icga_count", 0)
CombCountsNearEqual ==
    CombFa > 0 /\ CombIcga > 0 /\ Abs(CombFa - CombIcga) <= 1
\* 1.8 <= w / h <= 2.2
CombRatioInRange ==
    9 * comb.img.h <= 5 * comb.img.w /\ 5 * comb.img.w <= 11 * comb.img.h

\* C4: is_fa_icga_combined_image is true exactly when the width is at least
\* 1000 and (the width/height ratio lies in [1.8, 2.2] or the FFA and ICGA
\* counts are both positive and differ by at most 1); when true the saved
\* image is the left half (0,0)-(width div 2, height) and the frame is
\* marked combined, when false it is saved uncropped and unmarked.
C4_CombinedDetection ==
    /\ comb.stage \in {"detected", "split", "rechecked"} =>
          (comb.detected <=>
              comb.img.w >= 1000 /\ (CombRatioInRange \/ CombCountsNearEqual))
    /\ comb.stage \in {"split", "rechecked"} =>
          IF comb.detected
          THEN /\ comb.split.image =
                     [w |-> comb.img.w \div 2, h |-> comb.img.h]
               /\ comb.split.is_combined
          ELSE /\ comb.split.image = comb.img
               /\ ~comb.split.is_combined

C4_Witness ==
    /\ comb.stage = "split"
    /\ comb.img.w = 1000
    /\ comb.detected
    /\ comb.split.is_combined
    /\ comb.split.image.w = 500

MaxStripes == 3

S_TIME_1 == <<"(","0","0",":","1","2",".","3","4","5",")">>

StripeTops == {100, 109, 120, 130}

\* one tile placed once in each column
DoubleStripe ==
    Image(1040, 16, S_png,
          <<Rect(20, 100, 280, 104), Rect(320, 100, 580, 104)>>, 10, TRUE)

StripeImages ==
    {Stripe(col, y0) : col \in {1, 2}, y0 \in StripeTops}
    \cup {DoubleStripe, Frame(1200, 400, 1, 300, 10, TRUE)}

InitStripes ==
    /\ \E images \in SeqsUpTo(StripeImages, MaxStripes) :
          FfaCall(Doc(<<Page(<<Span(S_FA, 50, 40), Span(S_TIME_1, 50, 100)>>,
                             images)>>),
                  Opts(FALSE, 1, DEFAULT_THRESHOLD))
    /\ comb = None
    /\ oct = None
    /\ par = None
    /\ proc = None

SpecStripes == InitStripes /\ [][NextFfa]_vars

Groups == page_state.groups
Top(item) == item.rect.y0

\* the places <<g, k>> of the groups at which a placement is held
PlacesOf(id) ==
    {p \in UNION {{<<g, k>> : k \in DOMAIN Groups[g].group} :
                     g \in DOMAIN Groups} :
        Groups[p[1]].group[p[2]].id = id}

\* C6: within one column the stripe placements are sorted by top edge and a
\* new group starts exactly when two consecutive top edges are more than
\* 10 apart (9 apart: one group; 11 apart: two groups); every stripe
\* placement is in exactly one group; no group holds stripes of both columns.
C6_StripeGrouping ==
    pc = "emit" =>
        /\ \A i \in DOMAIN page_state.stripes :
              Cardinality(PlacesOf(page_state.stripes[i].id)) = 1
        /\ \A g \in DOMAIN Groups :
              LET grp == Groups[g].group
              IN  /\ grp # <<>>
                  /\ \A k \in DOMAIN grp :
                        /\ grp[k].column = Groups[g].col
                        /\ is_stripe_candidate(grp[k].pil_image.w,
                                               grp[k].pil_image.h)
                  /\ \A k \in 1..Len(grp) - 1 :
                        /\ Top(grp[k]) <= Top(grp[k + 1])
                        /\ Top(grp[k + 1]) - Top(grp[k]) <= 10
        /\ \A g \in DOMAIN Groups, h \in DOMAIN Groups :
              (Groups[g].col = Groups[h].col /\ Groups[h].idx = Groups[g].idx + 1)
                 => Top(Groups[h].group[1])
                      - Top(Groups[g].group[Len(Groups[g].group)]) > 10
        /\ \A g \in DOMAIN Groups, h \in DOMAIN Groups :
              (g # h /\ Groups[g].col = Groups[h].col)
                 => Groups[g].idx # Groups[h].idx

C6_Witness ==
    /\ pc = "emit"
    /\ \E g \in DOMAIN Groups, h \in DOMAIN Groups :
          /\ Groups[g].col = 1 /\ Groups[h].col = 1
          /\ Len(Groups[g].group) = 2
          /\ Top(Groups[g].group[1]) = 100
          /\ Top(Groups[g].group[2]) = 109
          /\ Top(Groups[h].group[1]) = 120

(***************************************************************************)
(* SpecLabels: one-page documents with one frame in column 1 and label     *)
(* spans in and out of its label range.                                    *)
(***************************************************************************)
MaxLabelSpans == 3
MaxPdfIndex == 2

T_FA_1_30 == <<"F","A"," ","1",":","3","0">>
T_IR_30   == <<"I","R"," ","3","0","deg_sign","[","L","]">>
T_fa_late == <<"f","a","+","l","a","t","e">>

\* the frame is placed at (20, 100): in range and nearest, in range and
\* farther, out of range (60 below)
LabelSpanChoices ==
    {Span(t, 20, y) : t \in {T_FA_1_30, T_IR_30, T_fa_late}, y \in {95, 160}}
    \cup {Span(T_FA_1_30, 60, 110)}

LabelImages ==
    {<<Frame(1200, 400, 1, 100, 10, TRUE)>>,
     <<Frame(2000, 1000, 1, 100, 10, TRUE)>>,
     <<Stripe(1, 100)>>}

InitLabels ==
    /\ \E spans \in SeqsUpTo(LabelSpanChoices, MaxLabelSpans),
          images \in LabelImages, pdf_index \in 1..MaxPdfIndex :
          FfaCall(Doc(<<Page(spans, images)>>),
                  Opts(FALSE, pdf_index, DEFAULT_THRESHOLD))
    /\ comb = None
    /\ oct = None
    /\ par = None
    /\ proc = None

SpecLabels == InitLabels /\ [][NextFfa]_vars

\* the sanitizer as the claim describes it, one character at a time
RECURSIVE SanitizedLabel(_)
SanitizedLabel(label) ==
    IF label = <<>> THEN <<>>
    ELSE LET c == Head(label)
             out == IF c = " " THEN <<"_">>
                    ELSE IF c = "deg_sign" THEN <<"d","e","g">>
                    ELSE IF c \in {"[", "]"} THEN <<>>
                    ELSE IF c \in Range(LowerLetters) \cup Range(UpperLetters)
                                  \cup Range(Digits) \cup {"_", "-", ".", ":"}
                    THEN <<c>>
                    ELSE <<"_">>
         IN  out \o SanitizedLabel(Tail(label))

\* the scenario: FA count 3, ICGA and IR count 0, no laterality token,
\* document index 1, one 1200 x 400 raster in column 1, and every label
\* span within label range of it reading 'FA 1:30' (at least one does)
ScenarioFA130 ==
    /\ Len(doc.pages) = 1
    /\ FaCount = 3 /\ IcgaCount = 0 /\ IrCount = 0
    /\ document_eye(get_text(doc.pages[1])) = EYE_UNKNOWN
    /\ opts.pdf_index = 1
    /\ Len(Page1Images) = 1
    /\ Page1Images[1].w = 1200 /\ Page1Images[1].h = 400
    /\ Page1Images[1].rects[1].x0 + Page1Images[1].rects[1].x1 < 600
    /\ \E i \in DOMAIN doc.pages[1].spans :
          /\ doc.pages[1].spans[i].text = T_FA_1_30
          /\ Abs(doc.pages[1].spans[i].y - Page1Images[1].rects[1].y0) < 60
    /\ \A i \in DOMAIN doc.pages[1].spans :
          Abs(doc.pages[1].spans[i].y - Page1Images[1].rects[1].y0) < 60
             => doc.pages[1].spans[i].text = T_FA_1_30

NameStem(e) ==
    (IF e.eye = "OD" THEN <<"O","D">>
     ELSE IF e.eye = "OS" THEN <<"O","S">>
     ELSE <<"u","n","k","n","o","w","n">>)
    \o <<"_","p","d","f">> \o IntToStr(opts.pdf_index)
    \o <<"_","p","a","g","e">> \o IntToStr(e.page)

\* a standard frame with nearest label L, not cropped from a composite, is
\* named <eye>_pdf<docIndex>_page<pageNum>_<sanitized L>.<ext>
LabelledNames ==
    \A i \in DOMAIN images_info :
        LET e == images_info[i]
        IN  (e.kind = "standard" /\ e.label # <<>> /\ ~e.combined) =>
               e.filename = NameStem(e) \o <<"_">> \o SanitizedLabel(e.label)
                            \o <<".">> \o e.format

ScenarioResult(name) ==
    /\ result.status = "success"
    /\ result.num_images = 1
    /\ Len(result.images) = 1
    /\ result.images[1].kind = "standard"
    /\ result.images[1].filename = name \o <<".">> \o Page1Images[1].ext

\* C7 as stated: in the scenario extract() returns success with frame_count
\* 1 and the single output is named unknown_pdf1_page1_FA_1-30.<ext>.
C7_AsStated ==
    (pc = "done" /\ ScenarioFA130) =>
        ScenarioResult(<<"u","n","k","n","o","w","n","_","p","d","f","1",
                         "_","p","a","g","e","1","_","F","A","_","1","-",
                         "3","0">>)

\* C7 (amended): in the scenario extract() returns success with frame_count
\* 1 and the single standard-path output is named
\* unknown_pdf1_page1_FA_1:30.<ext>; in general a standard frame with
\* nearest label L that is not cropped from a composite is named
\* <eye>_pdf<docIndex>_page<pageNum>_<sanitized L>.<ext>, the sanitizer
\* keeping the colon ('FA 1:30' gives 'FA_1:30').
C7_LabelledName ==
    /\ (pc = "done" /\ ScenarioFA130) =>
          ScenarioResult(<<"u","n","k","n","o","w","n","_","p","d","f","1",
                           "_","p","a","g","e","1","_","F","A","_","1",":",
                           "3","0">>)
    /\ LabelledNames

C7_Witness ==
    /\ pc = "done"
    /\ ScenarioFA130
    /\ result.status = "success"
    /\ result.images[1].label = T_FA_1_30

(***************************************************************************)
(* SpecEyes: one-page documents with an FA label and laterality spans in   *)
(* either column, and frames in column 2 (and column 1).                   *)
(***************************************************************************)
MaxEyeSpans == 2

EyeSpanChoices ==
    {Span(t, x, 60) :
        t \in {S_RIGHT_EYE_SELECTED, S_LEFT_EYE, S_OS, S_OD}, x \in {50, 350}}

EyeImages ==
    {<<Frame(400, 400, 2, 100, 10, TRUE)>>,
     <<Frame(400, 400, 1, 100, 10, TRUE), Frame(400, 400, 2, 100, 10, TRUE)>>,
     <<Stripe(2, 100)>>}

InitEyes ==
    /\ \E spans \in SeqsUpTo(EyeSpanChoices, MaxEyeSpans),
          images \in EyeImages :
          FfaCall(Doc(<<Page(<<Span(S_FA, 50, 40)>> \o spans, images)>>),
                  Opts(FALSE, 1, DEFAULT_THRESHOLD))
    /\ comb = None
    /\ oct = None
    /\ par = None
    /\ proc = None

SpecEyes == InitEyes /\ [][NextFfa]_vars

Page1 == doc.pages[1]
Page1Text == get_text(Page1)

\* the column in which a span lies: left edge < page midpoint is column 1
LiesIn(span, col) == (IF 2 * span.x < Page1.width THEN 1 ELSE 2) = col

\* the entry of a column after a scan of the spans of that column alone
OwnScan(col) ==
    scan_spans(SelectSeq(Page1.spans, LAMBDA sp : LiesIn(sp, col)),
               Page1.width, EmptyScan).eye_by_column[col]

StrongLeft(e) == e.strength = "strong" /\ e.eye = EYE_OS

\* page 1 contains 'RIGHT EYE SELECTED' before 'OS', the 'RIGHT EYE
\* SELECTED' span lies in column 1
ScenarioRightSelected ==
    /\ LET selected_at == Find(Upper(Page1Text), S_RIGHT_EYE_SELECTED, 0)
           os_at == Find(Upper(Page1Text), S_OS, 0)
       IN  selected_at # -1 /\ os_at # -1 /\ selected_at < os_at
    /\ \E i \in DOMAIN Page1.spans :
          /\ Page1.spans[i].text = S_RIGHT_EYE_SELECTED
          /\ LiesIn(Page1.spans[i], 1)

NamedOD(e) == SubSeq(e.filename, 1, 3) = <<"O","D","_">>

\* C8 as stated: the eye of a column is decided by the laterality spans of
\* that column alone, and in the scenario a frame in column 2 is not named
\* with eye OD.
C8_AsStated ==
    /\ pc = "emit" =>
          \A col \in {1, 2} :
             page_state.scanned.eye_by_column[col].eye = OwnScan(col).eye
    /\ \A i \in DOMAIN images_info :
          (images_info[i].column = 2 /\ ScenarioRightSelected)
             => ~NamedOD(images_info[i])

\* C8 (amended): during the span scan a laterality span changes only the
\* entry of the column in which it lies; after the scan a column whose entry
\* is not strong takes the document-level eye when that eye is definite and
\* no column holds a strong entry for the other eye.  So in the scenario,
\* when the document-level eye is OD and no column ends the scan with a
\* strong left-eye entry, the frame in column 2 is named with eye OD.
C8_ColumnEye ==
    LET own1 == OwnScan(1)
        own2 == OwnScan(2)
        own == <<own1, own2>>
        agrees == \A c \in {1, 2} :
                     own[c].strength = "strong" => own[c].eye = pdf_info.eye
    IN
    /\ pc = "emit" =>
          \A col \in {1, 2} :
             page_state.scanned.eye_by_column[col].eye =
                IF own[col].strength = "strong" THEN own[col].eye
                ELSE IF pdf_info.eye \in {EYE_OD, EYE_OS} /\ agrees
                THEN pdf_info.eye
                ELSE own[col].eye
    /\ \A i \in DOMAIN images_info :
          (/\ images_info[i].column = 2
           /\ ~NamedOD(images_info[i])
           /\ pdf_info.eye = EYE_OD
           /\ ScenarioRightSelected) => StrongLeft(own1) \/ StrongLeft(own2)

C8_Witness ==
    /\ pc = "done"
    /\ ScenarioRightSelected
    /\ \E i \in DOMAIN Page1.spans :
          Page1.spans[i].text = S_OS /\ LiesIn(Page1.spans[i], 2)
    /\ \E i \in DOMAIN images_info :
          images_info[i].column = 2 /\ NamedOD(images_info[i])

(***************************************************************************)
(* extract_oct_from_path.py: the eye-laterality OCR cascade.               *)
(*                                                                         *)
(* A frame carries, for each detection region, what reader.readtext gives  *)
(* on the crop of that region: a list of recognised texts, or a failure    *)
(* (the region's try block raises).  The document carries the same for the *)
(* right-top crop of its rendered first page.                              *)
(***************************************************************************)
S_0S    == <<"0","S">>
S_0D    == <<"0","D">>
S_QS    == <<"Q","S">>
S_QD    == <<"Q","D">>
S_RIGHT == <<"R","I","G","H","T">>
S_LEFT  == <<"L","E","F","T">>
L_OD    == <<"_","O","D">>
L_OS    == <<"_","O","S">>
S_main  == <<"m","a","i","n">>

Str(s) == [str |-> s]
Fails == [fails |-> TRUE]
Reads(results) == [results |-> results]

\* truthiness of an optional string
Truthy(v) == ~IsNone(v) /\ v.str # <<>>

\* ' '.join([result[1].upper() for result in results])
RECURSIVE join_upper(_)
join_upper(results) ==
    IF results = <<>> THEN <<>>
    ELSE IF Len(results) = 1 THEN Upper(Head(results))
    ELSE Upper(Head(results)) \o <<" ">> \o join_upper(Tail(results))

\* (a variant: only the 0D and QD misreads are normalised)
normalize_misreads_right_only(text) ==
    Replace(Replace(text, S_0D, S_OD), S_QD, S_OD)

\* text.replace('0S','OS').replace('0D','OD').replace('QS','OS')
\*     .replace('QD','OD')
normalize_misreads(text) ==
    Replace(Replace(Replace(Replace(text, S_0S, S_OS), S_0D, S_OD),
                    S_QS, S_OS), S_QD, S_OD)

\* the verdict on a normalised text: "_OD", "_OS" or no verdict (<<>>)
eye_verdict(text) ==
    LET has_od == Contains(text, S_OD) \/ Contains(text, S_RIGHT)
        has_os == Contains(text, S_OS) \/ Contains(text, S_LEFT)
        od_pos == IF Contains(text, S_OD) THEN Find(text, S_OD, 0)
                  ELSE Find(text, S_RIGHT, 0)
        os_pos == IF Contains(text, S_OS) THEN Find(text, S_OS, 0)
                  ELSE Find(text, S_LEFT, 0)
    IN  IF has_od /\ ~has_os THEN L_OD
        ELSE IF has_os /\ ~has_od THEN L_OS
        ELSE IF has_od /\ has_os
        THEN IF od_pos < os_pos THEN L_OD ELSE L_OS
        ELSE <<>>

\* detection_regions, in priority order
detection_regions(try_extended_region) ==
    IF try_extended_region
    THEN <<"right_corner", "standard", "extended", "full_top">>
    ELSE <<"right_corner", "standard">>

\* (a variant: the first region whose read raises ends the loop)
RECURSIVE scan_regions_until_failure(_, _, _)
scan_regions_until_failure(regions, ocr, reads) ==
    IF regions = <<>> THEN [label |-> <<>>, reads |-> reads]
    ELSE
    LET outcome == ocr[Head(regions)]
    IN  IF "fails" \in DOMAIN outcome
        THEN [label |-> <<>>, reads |-> reads + 1]
        ELSE LET verdict ==
                   eye_verdict(normalize_misreads(join_upper(outcome.results)))
             IN  IF verdict # <<>>
                 THEN [label |-> verdict, reads |-> reads + 1]
                 ELSE scan_regions_until_failure(Tail(regions), ocr,
                                                 reads + 1)

\* the loop over the regions; reads counts the readtext invocations
RECURSIVE scan_regions(_, _, _)
scan_regions(regions, ocr, reads) ==
    IF regions = <<>> THEN [label |-> <<>>, reads |-> reads]
    ELSE
    LET outcome == ocr[Head(regions)]
    IN  IF "fails" \in DOMAIN outcome
        THEN scan_regions(Tail(regions), ocr, reads + 1)
        ELSE LET verdict ==
                   eye_verdict(normalize_misreads(join_upper(outcome.results)))
             IN  IF verdict # <<>>
                 THEN [label |-> verdict, reads |-> reads + 1]
                 ELSE scan_regions(Tail(regions), ocr, reads + 1)

detect_eye_from_oct_image(pil_image, try_extended_region) ==
    scan_regions(detection_regions(try_extended_region), pil_image.ocr, 0)

detect_eye_from_pdf_page(d) ==
    IF "fails" \in DOMAIN d.page_ocr
    THEN [label |-> <<>>, reads |-> 1]
    ELSE [label |->
             eye_verdict(normalize_misreads(join_upper(d.page_ocr.results))),
          reads |-> 1]

\* the third attempt: the text of the page, page 1 only
page_text_eye(page) ==
    LET page_text == get_text(page)
        has_od == Contains(page_text, S_OD) \/ Contains(page_text, S_YOUYAN)
        has_os == Contains(page_text, S_OS) \/ Contains(page_text, S_ZUOYAN)
    IN  IF has_od /\ ~has_os THEN L_OD
        ELSE IF has_os /\ ~has_od THEN L_OS
        ELSE <<>>


\* get_ocr_reader raises: the construction of easyocr.Reader fails in this
\* process, inside the outer try of both detect functions
reader_raises(d) == Get(d, "reader_raises", FALSE)

\* (a variant: the rendered page is tried again for every frame)
cascade_render_again(pil_image, page, pn, d, tried) ==
    LET no_verdict == [label |-> <<>>, reads |-> 0]
        first == IF reader_raises(d) THEN no_verdict
                 ELSE detect_eye_from_oct_image(pil_image, FALSE)
        second == IF first.label # <<>>
                  THEN [label |-> first.label, reads |-> 0]
                  ELSE IF reader_raises(d) THEN no_verdict
                  ELSE detect_eye_from_oct_image(pil_image, TRUE)
        third == IF second.label = <<>> /\ pn = 0
                 THEN page_text_eye(page)
                 ELSE second.label
        render == third = <<>> /\ pn = 0
        fourth == IF ~render THEN [label |-> third, reads |-> 0]
                  ELSE IF reader_raises(d) THEN no_verdict
                  ELSE detect_eye_from_pdf_page(d)
    IN  [eye_label |-> fourth.label,
         reads |-> first.reads + second.reads + fourth.reads,
         attempts |-> <<"corner">>
                      \o (IF first.label = <<>> THEN <<"extended">>
                          ELSE <<>>)
                      \o (IF second.label = <<>> /\ pn = 0 THEN <<"text">>
                          ELSE <<>>)
                      \o (IF render THEN <<"render">> ELSE <<>>),
         tried |-> tried \/ render]

\* the four attempts for one frame, lines 202-223
cascade(pil_image, page, pn, d, tried) ==
    LET no_verdict == [label |-> <<>>, reads |-> 0]
        first == IF reader_raises(d) THEN no_verdict
                 ELSE detect_eye_from_oct_image(pil_image, FALSE)
        second == IF first.label # <<>>
                  THEN [label |-> first.label, reads |-> 0]
                  ELSE IF reader_raises(d) THEN no_verdict
                  ELSE detect_eye_from_oct_image(pil_image, TRUE)
        third == IF second.label = <<>> /\ pn = 0
                 THEN page_text_eye(page)
                 ELSE second.label
        render == third = <<>> /\ ~tried /\ pn = 0
        fourth == IF ~render THEN [label |-> third, reads |-> 0]
                  ELSE IF reader_raises(d) THEN no_verdict
                  ELSE detect_eye_from_pdf_page(d)
    IN  [eye_label |-> fourth.label,
         reads |-> first.reads + second.reads + fourth.reads,
         attempts |-> <<"corner">>
                      \o (IF first.label = <<>> THEN <<"extended">>
                          ELSE <<>>)
                      \o (IF second.label = <<>> /\ pn = 0 THEN <<"text">>
                          ELSE <<>>)
                      \o (IF render THEN <<"render">> ELSE <<>>),
         tried |-> tried \/ render]

\* (a variant: the verdict is never kept for the later frames)
cache_eye_label_never(pdf_eye_label, eye_label) == pdf_eye_label

\* if eye_label: pdf_eye_label = eye_label
cache_eye_label(pdf_eye_label, eye_label) ==
    IF eye_label # <<>> THEN Str(eye_label) ELSE pdf_eye_label

\* eye_label.strip('_')
RECURSIVE strip_underscores(_)
strip_underscores(s) ==
    IF s # <<>> /\ Head(s) = "_" THEN strip_underscores(Tail(s))
    ELSE IF s # <<>> /\ s[Len(s)] = "_"
    THEN strip_underscores(SubSeq(s, 1, Len(s) - 1))
    ELSE s

output_name(eye_label, folder_prefix, pdf_index, several, total, image_ext) ==
    LET eye_str == IF eye_label # <<>> THEN strip_underscores(eye_label)
                   ELSE S_unknown
        prefix_str == IF folder_prefix # <<>> THEN folder_prefix \o <<"_">>
                      ELSE <<>>
        pdf_str == Tail(S_pdf) \o IntToStr(pdf_index) \o <<"_">>
    IN  eye_str \o <<"_">> \o prefix_str \o pdf_str
        \o (IF several THEN Tail(S_img) \o IntToStr(total) ELSE S_main)
        \o <<".">> \o image_ext

\* the call: pdf_path and the keyword arguments
OctLocals(d, a) ==
    [doc |-> d, args |-> a, pc |-> "start", dir_created |-> FALSE,
     page_num |-> 0, img_index |-> 0, total_images |-> 0,
     pdf_eye_label |-> None, tried_pdf_page_render |-> FALSE,
     ocr_reader |-> None, ocr_calls |-> 0, files |-> <<>>,
     result |-> None]

OctCall(d, a) == oct = OctLocals(d, a)

\* lines 143-156
OctOpen ==
    /\ oct.pc = "start"
    /\ oct' = IF ~oct.doc.opens
              THEN [oct EXCEPT !.dir_created = TRUE,
                               !.result = [returned |-> 0],
                               !.pc = "done"]
              ELSE [oct EXCEPT !.dir_created = TRUE,
                               !.total_images = oct.args.start_index - 1,
                               !.pdf_eye_label =
                                   IF Truthy(oct.args.cached_eye_label)
                                   THEN oct.args.cached_eye_label
                                   ELSE None,
                               !.tried_pdf_page_render = FALSE,
                               !.pc = "page"]
    /\ UNCHANGED <<ffa_vars, comb, par, proc>>

\* one pass of the loop over the images of the page, lines 180-270
OctFrame ==
    /\ oct.pc = "page"
    /\ oct.page_num < Len(oct.doc.pages)
    /\ oct.img_index < Len(oct.doc.pages[oct.page_num + 1].images)
    /\ LET page == oct.doc.pages[oct.page_num + 1]
           image_list == page.images
           img == image_list[oct.img_index + 1]
           cached == Truthy(oct.pdf_eye_label)
           attempt == IF cached
                      THEN [eye_label |-> oct.pdf_eye_label.str, reads |-> 0,
                            attempts |-> <<>>,
                            tried |-> oct.tried_pdf_page_render]
                      ELSE cascade(img, page, oct.page_num, oct.doc,
                                   oct.tried_pdf_page_render)
           total == oct.total_images + 1
       IN  IF ~img.decodes \/ img.w < 300 \/ img.h < 300
           THEN oct' = [oct EXCEPT !.img_index = oct.img_index + 1]
           ELSE oct' =
                [oct EXCEPT
                   !.img_index = oct.img_index + 1,
                   !.total_images = total,
                   !.pdf_eye_label =
                       IF cached THEN oct.pdf_eye_label
                       ELSE cache_eye_label(oct.pdf_eye_label,
                                            attempt.eye_label),
                   !.tried_pdf_page_render = attempt.tried,
                   !.ocr_reader =
                       IF cached \/ reader_raises(oct.doc)
                       THEN oct.ocr_reader ELSE Str("en"),
                   !.ocr_calls = oct.ocr_calls + attempt.reads,
                   !.files = Append(oct.files,
                       [filename |->
                            output_name(attempt.eye_label,
                                        oct.args.folder_prefix,
                                        oct.args.pdf_index,
                                        Len(image_list) > 1, total, img.ext),
                        eye_label |-> attempt.eye_label,
                        page |-> oct.page_num + 1,
                        index |-> oct.img_index + 1,
                        reads |-> attempt.reads,
                        attempts |-> attempt.attempts,
                        from_cache |-> cached])]
    /\ UNCHANGED <<ffa_vars, comb, par, proc>>

\* for page_num in range(len(doc))
OctNextPage ==
    /\ oct.pc = "page"
    /\ oct.page_num < Len(oct.doc.pages)
    /\ oct.img_index >= Len(oct.doc.pages[oct.page_num + 1].images)
    /\ oct' = [oct EXCEPT !.page_num = oct.page_num + 1, !.img_index = 0]
    /\ UNCHANGED <<ffa_vars, comb, par, proc>>

\* doc.close(); return total_images
OctReturn ==
    /\ oct.pc = "page"
    /\ oct.page_num >= Len(oct.doc.pages)
    /\ oct' = [oct EXCEPT !.result = [returned |-> oct.total_images],
                          !.pc = "done"]
    /\ UNCHANGED <<ffa_vars, comb, par, proc>>

NextOct == OctOpen \/ OctFrame \/ OctNextPage \/ OctReturn


(***************************************************************************)
(* SpecOct: one extract_oct_images_from_pdf call, over single-frame        *)
(* documents whose right-corner crop reads as any short list of tokens,    *)
(* and over documents of several pages and frames.                         *)
(***************************************************************************)
MaxOcrResults == 2
MaxOctPages == 2

OctImage(w, h, ext, decodes, ocr) ==
    [w |-> w, h |-> h, ext |-> ext, decodes |-> decodes, ocr |-> ocr]
Regions(right_corner, standard, extended, full_top) ==
    [right_corner |-> right_corner, standard |-> standard,
     extended |-> extended, full_top |-> full_top]
OctPage(spans, images) == [spans |-> spans, images |-> images]
OctDoc(pages, page_ocr) ==
    [opens |-> TRUE, pages |-> pages, page_ocr |-> page_ocr]
OctArgs(start_index, folder_prefix, cached_eye_label, pdf_index) ==
    [start_index |-> start_index, folder_prefix |-> folder_prefix,
     cached_eye_label |-> cached_eye_label, pdf_index |-> pdf_index]

OcrTokens ==
    {S_0S, S_QS, <<"q","s">>, S_0D, S_QD, S_OS, S_OD, S_LEFT, S_RIGHT,
     <<"Q","0","S">>}

NoText == Reads(<<>>)
CornerFrame(corner, standard) ==
    OctImage(400, 400, S_png, TRUE,
             Regions(Reads(corner), standard, NoText, Reads(<<S_LEFT>>)))
Blank == OctImage(400, 400, S_png, TRUE,
                  Regions(NoText, NoText, NoText, NoText))
TopLeft == OctImage(400, 400, S_jpeg, TRUE,
                    Regions(NoText, Fails, NoText, Reads(<<S_LEFT>>)))
SmallFrame == OctImage(200, 200, S_png, TRUE,
                       Regions(Reads(<<S_OD>>), NoText, NoText, NoText))
Broken == OctImage(400, 400, S_png, FALSE,
                   Regions(Reads(<<S_OD>>), NoText, NoText, NoText))

OctPageChoices ==
    {OctPage(<<>>, <<Blank>>),
     OctPage(<<>>, <<CornerFrame(<<S_OD>>, NoText),
                     CornerFrame(<<S_0S>>, NoText)>>),
     OctPage(<<>>, <<SmallFrame, TopLeft>>),
     OctPage(<<Span(S_OS, 50, 40)>>, <<Broken, Blank>>),
     OctPage(<<>>, <<CornerFrame(<<S_0S>>, NoText)>>),
     OctPage(<<Span(S_OD, 50, 40), Span(S_OS, 350, 40)>>, <<Blank, Blank>>)}

InitOct ==
    /\ FfaIdle
    /\ comb = None
    /\ par = None
    /\ proc = None
    /\ \/ \E corner \in SeqsUpTo(OcrTokens, MaxOcrResults),
             standard \in {NoText, Reads(<<S_OD>>), Reads(<<S_OS>>), Fails} :
             OctCall(OctDoc(<<OctPage(<<>>,
                                <<CornerFrame(corner, standard)>>)>>,
                            NoText),
                     OctArgs(1, <<>>, None, 1))
       \/ \E pages \in SeqsUpTo(OctPageChoices, MaxOctPages),
             page_ocr \in {NoText, Reads(<<S_OD>>), Fails},
             cached \in {None, Str(<<>>), Str(L_OS)} :
             OctCall(OctDoc(pages, page_ocr), OctArgs(1, <<>>, cached, 1))
       \/ OctCall([OctDoc(<<>>, NoText) EXCEPT !.opens = FALSE],
                  OctArgs(1, <<>>, None, 1))

SpecOct == InitOct /\ [][NextOct]_vars

FrameOf(e) == oct.doc.pages[e.page].images[e.index]

HasRightToken(t) ==
    Contains(t, S_OD) \/ Contains(t, S_RIGHT)
    \/ Contains(t, S_0D) \/ Contains(t, S_QD)
HasLeftToken(t) ==
    Contains(t, S_OS) \/ Contains(t, S_LEFT)
    \/ Contains(t, S_0S) \/ Contains(t, S_QS)

\* the upper-cased text recognised in the right-corner crop of the frame
CornerText(e) == join_upper(FrameOf(e).ocr.right_corner.results)

CornerRead(e) ==
    ~e.from_cache /\ "results" \in DOMAIN FrameOf(e).ocr.right_corner

MisreadLeft(e) ==
    /\ CornerRead(e)
    /\ Contains(CornerText(e), S_0S) \/ Contains(CornerText(e), S_QS)
    /\ ~HasRightToken(CornerText(e))

MisreadRight(e) ==
    /\ CornerRead(e)
    /\ Contains(CornerText(e), S_0D) \/ Contains(CornerText(e), S_QD)
    /\ ~HasLeftToken(CornerText(e))

\* C9: when the right-corner text of a frame contains '0S' or 'QS' and no
\* right-eye token the frame's verdict is '_OS', when it contains '0D' or
\* 'QD' and no left-eye token the verdict is '_OD', and in both cases the
\* verdict comes from that one region: exactly one OCR read was made.
C9_MisreadNormalization ==
    \A i \in DOMAIN oct.files :
       LET e == oct.files[i]
       IN  /\ MisreadLeft(e) =>
                 /\ e.eye_label = L_OS
                 /\ e.reads = 1
                 /\ SubSeq(e.filename, 1, 3) = <<"O","S","_">>
           /\ MisreadRight(e) =>
                 /\ e.eye_label = L_OD
                 /\ e.reads = 1
                 /\ SubSeq(e.filename, 1, 3) = <<"O","D","_">>

C9_Witness ==
    \E i \in DOMAIN oct.files :
       /\ MisreadLeft(oct.files[i])
       /\ ~Contains(CornerText(oct.files[i]), S_OS)
       /\ FrameOf(oct.files[i]).ocr.standard = Reads(<<S_OD>>)
       /\ oct.files[i].eye_label = L_OS
       /\ oct.ocr_calls = 1

HasVerdictAt(files, i) == i \in DOMAIN files /\ files[i].eye_label # <<>>

\* C10: once a frame of the document has a verdict, no step of the call
\* invokes the OCR backend again and every frame written afterwards
\* reports that same eye; and with a non-empty cached_eye_label the OCR
\* backend is never invoked and every frame reports the cached eye.
C10_EyeLabelCaching ==
    /\ [](Truthy(oct.args.cached_eye_label) =>
             /\ oct.ocr_calls = 0
             /\ \A i \in DOMAIN oct.files :
                   oct.files[i].eye_label = oct.args.cached_eye_label.str)
    /\ [][\A i \in DOMAIN oct.files :
             HasVerdictAt(oct.files, i) =>
                /\ oct'.ocr_calls = oct.ocr_calls
                /\ \A j \in DOMAIN oct'.files :
                      j > Len(oct.files) =>
                         oct'.files[j].eye_label = oct.files[i].eye_label]_vars

C10_Witness ==
    \E i, j \in DOMAIN oct.files :
       /\ ~oct.files[i].from_cache
       /\ oct.files[i].eye_label = L_OD
       /\ oct.files[j].page > oct.files[i].page
       /\ FrameOf(oct.files[j]).ocr.right_corner = Reads(<<S_0S>>)
       /\ oct.files[j].eye_label = L_OD
       /\ oct.files[j].reads = 0

(***************************************************************************)
(* SpecNames: documents of one or two pages whose frames are labelled,     *)
(* unlabelled, composite or stripes, under each document index.            *)
(***************************************************************************)
MaxNameSpans == 2

T_FA_zuoyan == <<"F","A"," ","cjk_zuo","cjk_yan">>

NameSpanChoices ==
    {Span(T_FA_1_30, 20, 95), Span(T_FA_zuoyan, 20, 95),
     Span(T_IR_30, 20, 95), Span(S_TIME_1, 20, 100), Span(S_OD, 350, 60)}

NameImages ==
    {<<Frame(1200, 400, 1, 100, 10, TRUE)>>,
     <<Frame(2000, 1000, 1, 100, 10, TRUE)>>,
     <<Frame(400, 400, 2, 300, 10, TRUE)>>,
     <<Frame(400, 400, 1, 100, 10, TRUE), Frame(2000, 1000, 2, 300, 10, TRUE)>>,
     <<Stripe(1, 100)>>}

SecondPages ==
    {<<>>, <<Page(<<Span(T_FA_1_30, 20, 95)>>,
                  <<Frame(400, 400, 1, 100, 10, TRUE)>>)>>}

InitNames ==
    /\ \E spans \in SeqsUpTo(NameSpanChoices, MaxNameSpans),
          images \in NameImages, more \in SecondPages,
          pdf_index \in 1..MaxPdfIndex :
          FfaCall(Doc(<<Page(<<Span(S_FA_SP, 50, 700)>> \o spans, images)>>
                      \o more),
                  Opts(FALSE, pdf_index, DEFAULT_THRESHOLD))
    /\ comb = None
    /\ oct = None
    /\ par = None
    /\ proc = None

SpecNames == InitNames /\ [][NextFfa]_vars

StartsWith(s, prefix) ==
    Len(s) >= Len(prefix) /\ SubSeq(s, 1, Len(prefix)) = prefix
EndsWith(s, suffix) ==
    Len(s) >= Len(suffix)
    /\ SubSeq(s, Len(s) - Len(suffix) + 1, Len(s)) = suffix
DropPrefix(s, prefix) == SubSeq(s, Len(prefix) + 1, Len(s))
DropSuffix(s, suffix) == SubSeq(s, 1, Len(s) - Len(suffix))

AsciiLabelChar(c) ==
    c \in Range(LowerLetters) \cup Range(UpperLetters) \cup Range(Digits)
          \cup {"_", "-", ".", ":"}
\* a word character of any script, or '-', '.', ':'
WordLabelChar(c) ==
    AsciiLabelChar(c) \/ c \in {"cjk_you", "cjk_zuo", "cjk_yan"}

\* mm-ss.mmm
IsTimePart(t) ==
    /\ Len(t) = 9
    /\ \A k \in {1, 2, 4, 5, 7, 8, 9} : t[k] \in Range(Digits)
    /\ t[3] = "-" /\ t[6] = "."

\* the frame was cropped from a composite: it is narrower than its source
Cropped(e) == e.width # e.source.w

S_dot_png == <<".","p","n","g">>
S__combine == <<"_","c","o","m","b","i","n","e">>

\* the i-th manifest entry has the form of its kind, with the label part
\* drawn from the characters Allowed
NameForm(e, i, Allowed(_)) ==
    LET name == e.filename
        stem == NameStem(e)
        ext == <<".">> \o e.format
        body == DropSuffix(DropPrefix(name, stem), ext)
        core == IF Cropped(e) THEN DropSuffix(body, S__combine) ELSE body
    IN  /\ e.eye \in {"OD", "OS", "unknown"}
        /\ (pc = "emit" /\ e.page = page_num + 1) =>
              LET col_eye == page_state.scanned.eye_by_column[e.column].eye
              IN  e.eye = IF col_eye = EYE_OD THEN "OD"
                          ELSE IF col_eye = EYE_OS THEN "OS" ELSE "unknown"
        /\ e.page \in 1..Len(doc.pages)
        /\ StartsWith(name, stem)
        /\ EndsWith(DropPrefix(name, stem), ext)
        /\ EndsWith(body, S__combine) <=> Cropped(e)
        /\ IF e.kind = "standard"
           THEN /\ StartsWith(core, <<"_">>)
                /\ Len(core) > 1
                /\ \A k \in 2..Len(core) : Allowed(core[k])
                /\ (e.label = <<>> /\ ~Cropped(e)) =>
                      core = <<"_","i","m","g">> \o IntToStr(i)
           ELSE /\ ext = S_dot_png
                /\ \E g \in 1..9 :
                      LET head == <<"_","c","o","l">> \o IntToStr(e.column)
                                  \o <<"_","i","m","g">> \o IntToStr(g)
                                  \o <<"_">>
                      IN  /\ StartsWith(core, head)
                          /\ \/ DropPrefix(core, head)
                                   = <<"n","o","-","t","i","m","e">>
                             \/ IsTimePart(DropPrefix(core, head))

\* C11 as stated: every emitted name has the standard or the stripe form,
\* the label part drawn from [A-Za-z0-9_], '-', '.', ':' only.
C11_AsStated ==
    \A i \in DOMAIN images_info :
       NameForm(images_info[i], i, AsciiLabelChar)

\* C11 (amended): every emitted name has the standard form
\* <eye>_pdf<docIndex>_page<pageNum>_<label-or-index>[_combine].<ext> or the
\* stripe form <eye>_pdf<docIndex>_page<pageNum>_col<col>_img<groupIdx>_
\* <timestamp-or-no-time>[_combine].png; eye is OD, OS or unknown as resolved
\* for the frame's column, the label part holds only word characters (of any
\* script, not only A-Z, a-z, 0-9 and '_'), '-', '.' and ':', and _combine is
\* present exactly when the frame was cropped from a composite.
C11_NameForms ==
    \A i \in DOMAIN images_info :
       NameForm(images_info[i], i, WordLabelChar)

C11_Witness ==
    /\ pc = "done"
    /\ \E i \in DOMAIN images_info :
          /\ images_info[i].kind = "standard"
          /\ Cropped(images_info[i])
          /\ "cjk_zuo" \in Range(images_info[i].filename)
          /\ EndsWith(images_info[i].filename, S__combine \o S_dot_png)

(***************************************************************************)
(* SpecPair: two extract_ffa_images_from_pdf calls on one output           *)
(* directory, in any interleaving of their steps.  The variables of the    *)
(* module hold the call that is running; par.other holds the locals of the *)
(* call that is not, par.running tells which of the two is running.        *)
(***************************************************************************)
Locals ==
    [doc |-> doc, opts |-> opts, pc |-> pc, pdf_info |-> pdf_info,
     page_num |-> page_num, page_state |-> page_state,
     total_images |-> total_images, images_info |-> images_info,
     result |-> result]

CallLocals(d, o) ==
    [doc |-> d, opts |-> o, pc |-> "start", pdf_info |-> None,
     page_num |-> 0, page_state |-> NoPage, total_images |-> 0,
     images_info |-> <<>>, result |-> None]

\* the scheduler takes the running call off the processor and resumes the
\* other one; the output directory is the one thing they share
Switch ==
    /\ "other" \in DOMAIN par
    /\ par' = [par EXCEPT !.other = Locals, !.running = 3 - par.running]
    /\ doc' = par.other.doc
    /\ opts' = par.other.opts
    /\ pc' = par.other.pc
    /\ pdf_info' = par.other.pdf_info
    /\ page_num' = par.other.page_num
    /\ page_state' = par.other.page_state
    /\ total_images' = par.other.total_images
    /\ images_info' = par.other.images_info
    /\ result' = par.other.result
    /\ UNCHANGED <<out_dir, comb, oct, proc>>

PairIndices == {1, 11, 12}

PairDocs ==
    {Doc(<<Page(<<Span(T_FA_1_30, 20, 95)>>,
                <<Frame(400, 400, 1, 100, 10, TRUE)>>)>>),
     Doc(<<Page(<<Span(S_FA_SP, 50, 700)>>,
                <<Frame(400, 400, 1, 100, 10, TRUE),
                  Frame(400, 400, 2, 300, 10, TRUE)>>)>>),
     Doc(<<Page(<<Span(S_FA_SP, 50, 700), Span(S_TIME_1, 20, 100)>>,
                <<Stripe(1, 100), Stripe(1, 120)>>)>>),
     Doc(<<Page(<<Span(S_FA_SP, 50, 700)>>,
                <<Frame(400, 400, 1, 100, 10, TRUE)>>),
           Page(<<>>, <<Frame(2000, 1000, 1, 100, 10, TRUE)>>)>>)}

InitPair ==
    /\ \E d1 \in PairDocs, d2 \in PairDocs,
          i1 \in PairIndices, i2 \in PairIndices :
          /\ FfaCall(d1, Opts(FALSE, i1, DEFAULT_THRESHOLD))
          /\ par = [other |-> CallLocals(d2, Opts(FALSE, i2,
                                                  DEFAULT_THRESHOLD)),
                    running |-> 1]
    /\ comb = None
    /\ oct = None
    /\ proc = None

NextPair == NextFfa \/ Switch

SpecPair == InitPair /\ [][NextPair]_vars

NamesOf(info) == {info[i].filename : i \in DOMAIN info}

\* C12: two calls on the same output directory with different document
\* indices, in any interleaving, write disjoint sets of file names: no file
\* written by one is overwritten by the other.
C12_IndexDisambiguates ==
    opts.pdf_index # par.other.opts.pdf_index =>
        NamesOf(images_info) \cap NamesOf(par.other.images_info) = {}

\* both calls ran on the same two-frame document with indices 1 and 11,
\* their writes alternating in the shared directory
C12_Witness ==
    /\ pc = "done" /\ par.other.pc = "done"
    /\ doc = par.other.doc
    /\ opts.pdf_index # par.other.opts.pdf_index
    /\ Len(out_dir.written) = 4
    /\ out_dir.written[1] \in NamesOf(images_info)
    /\ out_dir.written[2] \in NamesOf(par.other.images_info)
    /\ out_dir.written[3] \in NamesOf(images_info)
    /\ out_dir.written[4] \in NamesOf(par.other.images_info)

(***************************************************************************)
(* SpecTwice: extract_ffa_images_from_pdf is called a second time on the   *)
(* same document with the same arguments, into the directory the first     *)
(* call left behind.  par.first keeps what the first call returned.        *)
(***************************************************************************)
\* the first call has returned; the caller keeps its outcome and calls again
Rerun ==
    /\ pc = "done"
    /\ "first" \in DOMAIN par
    /\ IsNone(par.first)
    /\ par' = [par EXCEPT !.first = [result |-> result,
                                     total_images |-> total_images,
                                     images_info |-> images_info]]
    /\ pc' = "start"
    /\ pdf_info' = None
    /\ page_num' = 0
    /\ page_state' = NoPage
    /\ total_images' = 0
    /\ images_info' = <<>>
    /\ result' = None
    /\ UNCHANGED <<doc, opts, out_dir, comb, oct, proc>>

InitTwice ==
    /\ \E lead \in {<<>>, <<Span(S_FA_SP, 50, 700)>>},
          spans \in SeqsUpTo(NameSpanChoices, MaxNameSpans),
          images \in NameImages, more \in SecondPages :
          FfaCall(Doc(<<Page(lead \o spans, images)>> \o more),
                  Opts(FALSE, 1, DEFAULT_THRESHOLD))
    /\ comb = None
    /\ oct = None
    /\ par = [first |-> None]
    /\ proc = None

NextTwice == NextFfa \/ Rerun

SpecTwice == InitTwice /\ [][NextTwice]_vars

FileNames(info) == [i \in DOMAIN info |-> info[i].filename]

SecondReturned == pc = "done" /\ ~IsNone(par.first)

\* C13: the second run of extract() on the same document with the same
\* document index and options returns the same status, the same frame
\* count and the same sequence of output file names as the first.
C13_Determinism ==
    SecondReturned =>
        /\ result.status = par.first.result.status
        /\ total_images = par.first.total_images
        /\ (result.status = "success") =>
              result.num_images = par.first.result.num_images
        /\ FileNames(images_info) = FileNames(par.first.images_info)

C13_Witness ==
    /\ SecondReturned
    /\ result.status = "success"
    /\ result.num_images = 2
    /\ \E i \in DOMAIN images_info : images_info[i].label = <<>>
    /\ Len(out_dir.written) = 4

(***************************************************************************)
(* SpecReader: one process makes a sequence of cascade calls.               *)
(* proc.reader is the module global _ocr_reader, proc.constructions counts  *)
(* the easyocr.Reader objects built, proc.log lists the calls with the      *)
(* instance each of them was handed (0: none, construction raised).         *)
(***************************************************************************)
MaxCalls == 3

\* (a variant: a reader built for the other device is replaced)
get_ocr_reader_per_flag(reader, use_gpu, cuda, constructs, built) ==
    IF IsNone(reader) \/ reader.gpu # (cuda /\ use_gpu)
    THEN IF constructs
         THEN [reader |-> [gpu |-> cuda /\ use_gpu, id |-> built + 1],
               built |-> built + 1, raised |-> FALSE]
         ELSE [reader |-> reader, built |-> built, raised |-> TRUE]
    ELSE [reader |-> reader, built |-> built, raised |-> FALSE]

\* get_ocr_reader(use_gpu): constructs tells whether import easyocr, torch
\* and easyocr.Reader(...) go through when they are attempted
get_ocr_reader(reader, use_gpu, cuda, constructs, built) ==
    IF IsNone(reader)
    THEN IF constructs
         THEN [reader |-> [gpu |-> cuda /\ use_gpu, id |-> built + 1],
               built |-> built + 1, raised |-> FALSE]
         ELSE [reader |-> reader, built |-> built, raised |-> TRUE]
    ELSE [reader |-> reader, built |-> built, raised |-> FALSE]

\* the effect of one cascade call on the process
AfterCall(fn, use_gpu, constructs, label) ==
    LET got == get_ocr_reader(proc.reader, use_gpu, proc.cuda, constructs,
                              proc.constructions)
    IN  [proc EXCEPT
           !.reader = got.reader,
           !.constructions = got.built,
           !.log = Append(@, [fn |-> fn, use_gpu |-> use_gpu,
                              used |-> IF got.raised THEN 0
                                       ELSE got.reader.id]),
           !.returned = IF got.raised THEN <<>> ELSE label]

ReaderImages == {Blank, CornerFrame(<<S_0S>>, NoText), TopLeft}

\* detect_eye_from_oct_image(pil_image, use_gpu, try_extended_region)
DetectImageCall ==
    /\ Len(proc.log) < MaxCalls
    /\ \E pil_image \in ReaderImages, use_gpu \in BOOLEAN,
          try_extended_region \in BOOLEAN, constructs \in BOOLEAN :
          proc' = AfterCall("detect_eye_from_oct_image", use_gpu, constructs,
                     detect_eye_from_oct_image(pil_image,
                                               try_extended_region).label)
    /\ UNCHANGED <<ffa_vars, comb, oct, par>>

\* detect_eye_from_pdf_page(page, use_gpu)
DetectPageCall ==
    /\ Len(proc.log) < MaxCalls
    /\ \E page_ocr \in {NoText, Reads(<<S_OD>>), Fails},
          use_gpu \in BOOLEAN, constructs \in BOOLEAN :
          proc' = AfterCall("detect_eye_from_pdf_page", use_gpu, constructs,
                     detect_eye_from_pdf_page(OctDoc(<<>>, page_ocr)).label)
    /\ UNCHANGED <<ffa_vars, comb, oct, par>>

InitReader ==
    /\ FfaIdle
    /\ comb = None
    /\ oct = None
    /\ par = None
    /\ \E cuda \in BOOLEAN :
          proc = [reader |-> None, constructions |-> 0, cuda |-> cuda,
                  log |-> <<>>, returned |-> <<>>]

NextReader == DetectImageCall \/ DetectPageCall

SpecReader == InitReader /\ [][NextReader]_vars

Served == {i \in DOMAIN proc.log : proc.log[i].used # 0}

\* C14: over any sequence of cascade calls with any use_gpu values the OCR
\* backend is constructed at most once, not before the first call, and
\* every call that gets a backend gets that one instance; once constructed
\* the instance is never replaced.
C14_ReaderSingleton ==
    /\ [](/\ proc.constructions <= 1
          /\ proc.log = <<>> => (proc.constructions = 0 /\ IsNone(proc.reader))
          /\ \A i \in Served, j \in Served :
                proc.log[i].used = proc.log[j].used
          /\ Served # {} => (~IsNone(proc.reader)
                             /\ \A i \in Served :
                                   proc.log[i].used = proc.reader.id))
    /\ [][~IsNone(proc.reader) => proc'.reader = proc.reader]_vars

\* a CPU call built the backend and a later GPU call on a CUDA machine was
\* handed the same instance
C14_Witness ==
    /\ proc.cuda
    /\ Len(proc.log) = MaxCalls
    /\ \E i \in Served, j \in Served :
          /\ i < j
          /\ ~proc.log[i].use_gpu /\ proc.log[j].use_gpu
          /\ proc.log[i].used = proc.log[j].used
    /\ proc.constructions = 1

(***************************************************************************)
(* SpecFailures: documents of one or two pages whose frames are good,      *)
(* undecodable (Image.open raises), unreadable (doc.extract_image raises)  *)
(* or unsavable (pil_image.save raises).                                   *)
(***************************************************************************)
MaxFailFrames == 2

GoodFrame == Frame(400, 400, 1, 100, 10, TRUE)
FailFrames ==
    {GoodFrame,
     Frame(400, 400, 1, 100, 10, FALSE),
     GoodFrame @@ [reads |-> FALSE],
     GoodFrame @@ [saves |-> FALSE]}

FailPage(images) == Page(<<Span(S_FA_SP, 50, 700)>>, images)

InitFailures ==
    /\ \/ \E first \in SeqsUpTo(FailFrames, MaxFailFrames) :
             FfaCall(Doc(<<FailPage(first)>>),
                     Opts(FALSE, 1, DEFAULT_THRESHOLD))
       \/ \E first \in SeqsUpTo(FailFrames, MaxFailFrames),
             second \in SeqsUpTo(FailFrames, MaxFailFrames) :
             FfaCall(Doc(<<FailPage(first), FailPage(second)>>),
                     Opts(FALSE, 1, DEFAULT_THRESHOLD))
       \/ FfaCall(Doc(<<FailPage(<<Stripe(1, 100)>>)>>),
                  Opts(FALSE, 1, DEFAULT_THRESHOLD))
    /\ comb = None
    /\ oct = None
    /\ par = None
    /\ proc = None

SpecFailures == InitFailures /\ [][NextFfa]_vars

\* the frames of the document that can be read, decoded and saved and have
\* the size of a standard frame or of a stripe
IsSound(img) ==
    /\ img.decodes
    /\ ("reads" \in DOMAIN img => img.reads)
    /\ ("saves" \in DOMAIN img => img.saves)
    /\ img.rects # <<>>
    /\ (img.w >= 300 /\ img.h >= 300) \/ (img.w > 1000 /\ img.h < 120)

SoundFrames(p) ==
    Cardinality({i \in DOMAIN doc.pages[p].images :
                    IsSound(doc.pages[p].images[i])})

RECURSIVE SoundUpTo(_)
SoundUpTo(p) == IF p = 0 THEN 0 ELSE SoundUpTo(p - 1) + SoundFrames(p)

\* C15 as stated: a frame that cannot be read, decoded or saved is skipped
\* alone: the call returns success and counts every other frame of every
\* page.
C15_FrameFailuresSkipped ==
    pc = "done" =>
        /\ result.status = "success"
        /\ result.num_images = SoundUpTo(Len(doc.pages))

(***************************************************************************)
(* SpecBatch: the batch callers of extract_ffa_images_from_pdf.            *)
(* batch_extract_ffa hands every document to process_single_pdf through    *)
(* Pool.imap; process_excel_file hands every case to process_single_case,  *)
(* in a loop (worker_count = 1) or through a ProcessPoolExecutor whose     *)
(* futures are consumed in completion order.  par holds the caller's       *)
(* state; the FFA variables hold the running call of extract.              *)
(***************************************************************************)
MaxDocs == 3

\* the case a document belongs to: cuts are the positions after which the
\* next case begins
case_of(i, cuts) == 1 + Cardinality({c \in cuts : c < i})

\* idx of enumerate(ffa_pdfs, 1): the position of a document in its case
idx_in_case(i, cuts) ==
    Cardinality({j \in 1..i : case_of(j, cuts) = case_of(i, cuts)})

BatchCall(caller, docs, cuts) ==
    [caller |-> caller, docs |-> docs, cuts |-> cuts,
     todo |-> {case_of(i, cuts) : i \in DOMAIN docs},
     ui |-> 0, di |-> 0,
     case |-> [ffa_extracted |-> 0, errors |-> <<>>],
     results |-> <<>>, aborted |-> FALSE]

\* the next task of the pool or the next row of the sheet: imap and the
\* sequential loop keep the order, as_completed yields in completion order
BatchNext ==
    /\ pc = "idle"
    /\ "caller" \in DOMAIN par
    /\ ~par.aborted
    /\ par.ui = 0
    /\ \E u \in par.todo :
          /\ par.caller # "pool" => u = SetMin(par.todo)
          /\ par' = [par EXCEPT !.ui = u, !.todo = @ \ {u},
                                !.di = SetMin({i \in DOMAIN par.docs :
                                         case_of(i, par.cuts) = u}),
                                !.case = [ffa_extracted |-> 0,
                                          errors |-> <<>>]]
          /\ out_dir' = IF par.caller = "batch_extract_ffa"
                        THEN out_dir ELSE NoDir
    /\ UNCHANGED <<doc, opts, pc, pdf_info, page_num, page_state,
                   total_images, images_info, result, comb, oct, proc>>

\* the call of extract_ffa_images_from_pdf: process_single_pdf passes no
\* pdf_index, process_single_case passes idx
BatchExtract ==
    /\ pc = "idle"
    /\ "caller" \in DOMAIN par
    /\ par.ui # 0
    /\ doc' = par.docs[par.di]
    /\ opts' = Opts(FALSE,
                    IF par.caller = "batch_extract_ffa" THEN 1
                    ELSE idx_in_case(par.di, par.cuts),
                    DEFAULT_THRESHOLD)
    /\ pc' = "start"
    /\ pdf_info' = None
    /\ page_num' = 0
    /\ page_state' = NoPage
    /\ total_images' = 0
    /\ images_info' = <<>>
    /\ result' = None
    /\ UNCHANGED <<out_dir, par, comb, oct, proc>>

\* process_single_pdf, lines 17-31: the try around the call
process_single_pdf(u, extract_result) ==
    IF extract_result = Raised
    THEN [unit |-> u, status |-> "error"]
    ELSE [unit |-> u, status |-> extract_result.status,
          num_images |-> Get(extract_result, "num_images", 0)]

\* process_single_case, lines 714-718: the branches on the status
process_single_case(case, idx, extract_result) ==
    IF extract_result.status = "success"
    THEN [case EXCEPT !.ffa_extracted = @ + extract_result.num_images]
    ELSE IF extract_result.status = "skipped"
    THEN [case EXCEPT !.errors =
              Append(@, [pdf |-> idx, status |-> "skipped"])]
    ELSE case

\* the caller takes the outcome of the call
BatchCollect ==
    /\ pc = "done"
    /\ "caller" \in DOMAIN par
    /\ pc' = "idle"
    /\ doc' = None
    /\ opts' = None
    /\ LET u == par.ui
           last == par.di = Len(par.docs)
                   \/ case_of(par.di + 1, par.cuts) # u
       IN  IF par.caller = "batch_extract_ffa"
           THEN par' = [par EXCEPT !.ui = 0,
                            !.results =
                                Append(@, process_single_pdf(u, result))]
           ELSE IF result = Raised
           THEN par' = [par EXCEPT !.ui = 0, !.aborted = TRUE]
           ELSE LET case == process_single_case(par.case,
                                idx_in_case(par.di, par.cuts), result)
                IN  IF last
                    THEN par' = [par EXCEPT !.ui = 0, !.case = case,
                                     !.results = Append(@,
                                         [unit |-> u,
                                          ffa_extracted |->
                                              case.ffa_extracted,
                                          errors |-> case.errors])]
                    ELSE par' = [par EXCEPT !.di = @ + 1, !.case = case]
    /\ UNCHANGED <<pdf_info, page_num, page_state, total_images,
                   images_info, out_dir, result, comb, oct, proc>>

Unopenable == [opens |-> FALSE, pages |-> <<>>]
GoodDoc == Doc(<<FailPage(<<GoodFrame>>)>>)
RaisingDoc == Doc(<<FailPage(<<GoodFrame @@ [reads |-> FALSE], GoodFrame>>)>>)
IcgaDoc == Doc(<<Page(<<Span(S_ICGA, 50, 700)>>, <<GoodFrame>>)>>)
StripeDoc == Doc(<<FailPage(<<Stripe(1, 100)>>)>>)
BatchDocs == {GoodDoc, Unopenable, RaisingDoc, IcgaDoc}

InitBatch ==
    /\ FfaIdle
    /\ comb = None
    /\ oct = None
    /\ proc = None
    /\ \/ \E docs \in SeqsUpTo(BatchDocs, MaxDocs) \ {<<>>} :
             par = BatchCall("batch_extract_ffa", docs,
                             1..(Len(docs) - 1))
       \/ \E caller \in {"sequential", "pool"},
             docs \in SeqsUpTo(BatchDocs, MaxDocs) \ {<<>>} :
             \E cuts \in SUBSET (1..(Len(docs) - 1)) :
                par = BatchCall(caller, docs, cuts)
       \/ par = BatchCall("batch_extract_ffa", <<StripeDoc>>, {})

NextBatch == NextFfa \/ BatchNext \/ BatchExtract \/ BatchCollect

SpecBatch == InitBatch /\ [][NextBatch]_vars

\* the batch is over: nothing runs and nothing will be started
BatchOver ==
    /\ pc = "idle"
    /\ par.ui = 0
    /\ par.todo = {} \/ par.aborted

\* a document that cannot be opened, or whose extraction raises
DocFails(d) ==
    \/ ~d.opens
    \/ \E p \in DOMAIN d.pages : extract_image_raises(d.pages[p].images)

Reported(u) == \E k \in DOMAIN par.results : par.results[k].unit = u

\* document i is surfaced as status error in what the caller reports
SurfacedAsError(i) ==
    \E k \in DOMAIN par.results :
        LET r == par.results[k]
        IN  /\ r.unit = case_of(i, par.cuts)
            /\ IF par.caller = "batch_extract_ffa"
               THEN r.status = "error"
               ELSE \E e \in DOMAIN r.errors :
                       /\ r.errors[e].pdf = idx_in_case(i, par.cuts)
                       /\ r.errors[e].status = "error"

\* C16 as stated: for every batch caller, a document that cannot be opened
\* or whose extraction raises is surfaced as status error, and every
\* document and case of the batch is still processed and reported.
C16_BatchIsolation ==
    BatchOver =>
        /\ ~par.aborted
        /\ \A i \in DOMAIN par.docs :
              /\ Reported(case_of(i, par.cuts))
              /\ DocFails(par.docs[i]) => SurfacedAsError(i)

\* what holds of process_single_pdf alone
C16_FfaBatchIsolation ==
    (BatchOver /\ par.caller = "batch_extract_ffa") =>
        /\ ~par.aborted
        /\ \A i \in DOMAIN par.docs :
              /\ Reported(case_of(i, par.cuts))
              /\ DocFails(par.docs[i]) => SurfacedAsError(i)

(***************************************************************************)
(* SpecOcrFailures: one extract_oct_images_from_pdf call over documents    *)
(* whose OCR reads raise, region by region, whose rendered page read       *)
(* raises, or in a process where the reader cannot be constructed.         *)
(***************************************************************************)
RegionOutcomes == {Fails, NoText, Reads(<<S_OS>>)}

FailingFrame(right_corner, standard, extended, full_top) ==
    OctImage(400, 400, S_png, TRUE,
             Regions(right_corner, standard, extended, full_top))

AllFail == FailingFrame(Fails, Fails, Fails, Fails)

InitOcrFailures ==
    /\ FfaIdle
    /\ comb = None
    /\ par = None
    /\ proc = None
    /\ \E rc \in RegionOutcomes, st \in RegionOutcomes,
          ex \in RegionOutcomes, ft \in RegionOutcomes,
          more \in SeqsUpTo({AllFail, Blank}, MaxFailFrames - 1),
          spans \in {<<>>, <<Span(S_OD, 50, 40)>>},
          later \in SeqsUpTo({OctPage(<<Span(S_OD, 50, 40)>>, <<AllFail>>)},
                             MaxOctPages - 1),
          page_ocr \in {Fails, NoText, Reads(<<S_OD>>)},
          raises \in BOOLEAN :
          OctCall(OctDoc(<<OctPage(spans,
                              <<FailingFrame(rc, st, ex, ft)>> \o more)>>
                         \o later, page_ocr)
                     @@ [reader_raises |-> raises],
                  OctArgs(1, <<>>, None, 1))

SpecOcrFailures == InitOcrFailures /\ [][NextOct]_vars

RegionFails(e, region) == "fails" \in DOMAIN FrameOf(e).ocr[region]

\* every OCR attempt open to the frame raises
EveryOcrAttemptRaises(e) ==
    \/ reader_raises(oct.doc)
    \/ /\ \A region \in {"right_corner", "standard", "extended", "full_top"} :
             RegionFails(e, region)
       /\ "fails" \in DOMAIN oct.doc.page_ocr

PageTextSilent(e) ==
    e.page # 1 \/ page_text_eye(oct.doc.pages[e.page]) = <<>>

Qualifying(img) == img.decodes /\ img.w >= 300 /\ img.h >= 300

RECURSIVE QualifyingUpTo(_)
QualifyingUpTo(p) ==
    IF p = 0 THEN 0
    ELSE QualifyingUpTo(p - 1)
         + Cardinality({i \in DOMAIN oct.doc.pages[p].images :
                           Qualifying(oct.doc.pages[p].images[i])})

\* C17: an OCR read that raises counts as no verdict and the cascade goes
\* on: a frame whose right-corner read raises takes the verdict of the
\* standard region, and the first frame whose four regions all raise takes
\* the verdict of the page text or of the rendered page.  When every OCR
\* attempt raises, or the reader cannot be constructed, and the page text
\* gives no verdict, the laterality is empty and the frame is saved as
\* 'unknown_...'.  No exception leaves the call: it returns the number of
\* frames and every frame has its file.
C17_OcrFailuresSwallowed ==
    /\ \A k \in DOMAIN oct.files :
          LET e == oct.files[k]
              std == FrameOf(e).ocr.standard
          IN  ~e.from_cache =>
              /\ (/\ ~reader_raises(oct.doc)
                  /\ RegionFails(e, "right_corner")
                  /\ std = Reads(<<S_OS>>))
                 => e.eye_label = L_OS
              /\ (/\ ~reader_raises(oct.doc)
                  /\ k = 1
                  /\ \A region \in {"right_corner", "standard", "extended",
                                    "full_top"} : RegionFails(e, region)
                  /\ PageTextSilent(e)
                  /\ oct.doc.page_ocr = Reads(<<S_OD>>))
                 => e.eye_label = L_OD
              /\ (EveryOcrAttemptRaises(e) /\ PageTextSilent(e))
                 => /\ e.eye_label = <<>>
                    /\ StartsWith(e.filename, S_unknown \o <<"_">>)
    /\ oct.pc = "done" =>
          /\ oct.result.returned = QualifyingUpTo(Len(oct.doc.pages))
          /\ Len(oct.files) = QualifyingUpTo(Len(oct.doc.pages))

\* a call has returned after saving as unknown a frame whose seven reads
\* (two, then four regions, then the rendered page) all raised, and a frame
\* of a process without reader
C17_Witness ==
    /\ oct.pc = "done"
    /\ \E k \in DOMAIN oct.files :
          /\ EveryOcrAttemptRaises(oct.files[k])
          /\ PageTextSilent(oct.files[k])
          /\ StartsWith(oct.files[k].filename, S_unknown \o <<"_">>)
          /\ \/ oct.files[k].reads = 7
             \/ reader_raises(oct.doc) /\ Len(oct.files) > 1

(***************************************************************************)
(* SpecColumns: one-page documents whose laterality spans, strong and      *)
(* weak, English and localized, lie in either column in any order.         *)
(***************************************************************************)
ColumnSpanChoices ==
    {Span(t, x, 60) :
        t \in {S_RIGHT_EYE_SELECTED, S_RIGHT_EYE, S_LEFT_EYE_SELECTED,
               S_LEFT_EYE, S_OD, S_OS, S_YOUYAN, S_ZUOYAN,
               <<"o","s">>, <<"L","e","f","t"," ","E","y","e",":">>},
        x \in {50, 350}}

InitColumns ==
    /\ \E spans \in SeqsUpTo(ColumnSpanChoices, MaxEyeSpans),
          images \in {<<Frame(400, 400, 1, 100, 10, TRUE),
                        Frame(400, 400, 2, 100, 10, TRUE)>>,
                      <<Stripe(2, 100)>>} :
          FfaCall(Doc(<<Page(<<Span(S_FA, 50, 40)>> \o spans, images)>>),
                  Opts(FALSE, 1, DEFAULT_THRESHOLD))
    /\ comb = None
    /\ oct = None
    /\ par = None
    /\ proc = None

SpecColumns == InitColumns /\ [][NextFfa]_vars

StrongRightSpan(t) == Contains(Upper(t), S_RIGHT_EYE)
StrongLeftSpan(t) == Contains(Upper(t), S_LEFT_EYE)
StrongSpan(t) == StrongRightSpan(t) \/ StrongLeftSpan(t)
WeakRightSpan(t) == Upper(Strip(t)) = S_OD \/ Contains(t, S_YOUYAN)
WeakLeftSpan(t) == Upper(Strip(t)) = S_OS \/ Contains(t, S_ZUOYAN)
WeakSpan(t) == ~StrongSpan(t) /\ (WeakRightSpan(t) \/ WeakLeftSpan(t))

\* the positions of the strong and of the weak spans lying in a column
StrongIn(col) ==
    {i \in DOMAIN Page1.spans :
        LiesIn(Page1.spans[i], col) /\ StrongSpan(Page1.spans[i].text)}
WeakIn(col) ==
    {i \in DOMAIN Page1.spans :
        LiesIn(Page1.spans[i], col) /\ WeakSpan(Page1.spans[i].text)}

\* the eye a span names (the left-eye update is the later one)
StrongEye(t) == IF StrongLeftSpan(t) THEN EYE_OS ELSE EYE_OD
WeakEye(t) == IF WeakLeftSpan(t) THEN EYE_OS ELSE EYE_OD

ConflictingStrong ==
    \E col \in {1, 2} :
        /\ StrongIn(col) # {}
        /\ StrongEye(Page1.spans[SetMax(StrongIn(col))].text) # pdf_info.eye

\* C18: after the span scan and the document-level default, a column in
\* which a strong span lies holds the eye of its last strong span, as
\* strong, whatever weak spans follow it and whatever the document-level
\* eye is; a column without strong span takes the document-level eye when
\* that eye is definite and no column holds a strong signal for the other
\* eye, and otherwise holds the eye of its last weak span, or unknown.
C18_ColumnResolution ==
    pc = "emit" =>
        \A col \in {1, 2} :
            page_state.scanned.eye_by_column[col] =
                IF StrongIn(col) # {}
                THEN [eye |->
                         StrongEye(Page1.spans[SetMax(StrongIn(col))].text),
                      strength |-> "strong"]
                ELSE IF pdf_info.eye \in {EYE_OD, EYE_OS}
                        /\ ~ConflictingStrong
                THEN [eye |-> pdf_info.eye, strength |-> "default"]
                ELSE IF WeakIn(col) # {}
                THEN [eye |-> WeakEye(Page1.spans[SetMax(WeakIn(col))].text),
                      strength |-> "weak"]
                ELSE DefaultColumnEye

\* a strong left-eye span in column 2 conflicts with the document-level
\* right eye: column 2 keeps it and column 1 keeps its weak right eye
C18_Witness ==
    /\ pc = "emit"
    /\ page_state.scanned.eye_by_column[2] =
           [eye |-> EYE_OS, strength |-> "strong"]
    /\ pdf_info.eye = EYE_OD
    /\ page_state.scanned.eye_by_column[1] =
           [eye |-> EYE_OD, strength |-> "weak"]
    /\ WeakIn(1) # {}

(***************************************************************************)
(* SpecLaterality: one-page documents whose page-1 text holds laterality   *)
(* tokens of both sides in any order, with and without a modality keyword, *)
(* with and without a third image for the brightness fallback.             *)
(***************************************************************************)
LateralityTexts ==
    {S_OD, S_OS, S_RIGHT_EYE_SELECTED, S_LEFT_EYE_SELECTED, S_LEFT_EYE,
     S_YOUYAN, S_ZUOYAN, <<"o","d">>, <<"M","o","d","e">>}

LateralitySpans ==
    {[i \in DOMAIN ts |-> Span(ts[i], 50, 100 + 20 * i)] :
        ts \in SeqsUpTo(LateralityTexts, MaxEyeSpans)}

InitLaterality ==
    /\ \E lead \in {<<>>, <<Span(S_FA, 50, 40)>>},
          spans \in LateralitySpans,
          images \in {<<>>,
                      Logos \o <<Frame(1200, 400, 1, 100, 79, TRUE)>>,
                      Logos \o <<Stripe(1, 100)>>} :
          FfaCall(Doc(<<Page(lead \o spans, images)>>),
                  Opts(FALSE, 1, DEFAULT_THRESHOLD))
    /\ comb = None
    /\ oct = None
    /\ par = None
    /\ proc = None

SpecLaterality == InitLaterality /\ [][NextFfa]_vars

OccursAt(s, kw, i) ==
    i + Len(kw) <= Len(s) /\ SubSeq(s, i + 1, i + Len(kw)) = kw

\* the text positions at which a right-eye or a left-eye token occurs:
\* 'OD' / 'RIGHT EYE' and 'OS' / 'LEFT EYE' in any letter case, or the
\* localized word
RightTokenAt ==
    LET text == Page1Text
        text_upper == Upper(text)
    IN  {i \in 0..Len(text) :
            \/ OccursAt(text_upper, S_OD, i)
            \/ OccursAt(text_upper, S_RIGHT_EYE, i)
            \/ OccursAt(text, S_YOUYAN, i)}
LeftTokenAt ==
    LET text == Page1Text
        text_upper == Upper(text)
    IN  {i \in 0..Len(text) :
            \/ OccursAt(text_upper, S_OS, i)
            \/ OccursAt(text_upper, S_LEFT_EYE, i)
            \/ OccursAt(text, S_ZUOYAN, i)}

EarliestSide ==
    IF RightTokenAt # {} /\ LeftTokenAt = {} THEN EYE_OD
    ELSE IF LeftTokenAt # {} /\ RightTokenAt = {} THEN EYE_OS
    ELSE IF RightTokenAt = {} THEN EYE_UNKNOWN
    ELSE IF SetMin(RightTokenAt) < SetMin(LeftTokenAt) THEN EYE_OD
    ELSE EYE_OS

SelectedOccurs ==
    LET text_upper == Upper(Page1Text)
    IN  \E i \in 0..Len(text_upper) :
            \/ OccursAt(text_upper, S_RIGHT_EYE_SELECTED, i)
            \/ OccursAt(text_upper, S_LEFT_EYE_SELECTED, i)

\* analyze_pdf_info has just returned
Analyzed == pc = "gate"

\* C19 as stated: the eye of every verdict is the side of the earliest
\* laterality token of the page-1 text (unknown without token), and the
\* explicit-selection flag is true exactly when an 'EYE SELECTED' label
\* occurs.
C19_AsStated ==
    (Analyzed /\ HasVerdict) =>
        /\ pdf_info.eye = EarliestSide
        /\ pdf_info.eye_selected_label = SelectedOccurs

\* C19 (amended): when one of the three modality keyword counts is
\* positive, the eye is the side of the earliest laterality token of the
\* page-1 text, matched in any letter case, and unknown without token; when
\* the verdict comes from the brightness fallback the eye is unknown
\* whatever tokens the text holds.  In both cases the explicit-selection
\* flag is true exactly when 'RIGHT EYE SELECTED' or 'LEFT EYE SELECTED'
\* occurs, in any letter case.
C19_Laterality ==
    (Analyzed /\ HasVerdict) =>
        /\ pdf_info.eye =
              IF SomeCountPositive THEN EarliestSide ELSE EYE_UNKNOWN
        /\ pdf_info.eye_selected_label = SelectedOccurs

\* both sides occur, the left-eye token first, under a modality keyword
C19_Witness ==
    /\ Analyzed
    /\ SomeCountPositive
    /\ RightTokenAt # {} /\ LeftTokenAt # {}
    /\ SetMin(LeftTokenAt) < SetMin(RightTokenAt)
    /\ pdf_info.eye = EYE_OS
    /\ pdf_info.eye_selected_label

(***************************************************************************)
(* SpecFrames: documents of one or two pages whose frames have sizes on    *)
(* both sides of every threshold and zero, one or two placement            *)
(* rectangles, left of, on and right of the page midpoint; the             *)
(* eye-selection label is on page 1, on page 2, on both or on neither.     *)
(***************************************************************************)
FrameWidths == {199, 200, 299, 300, 1000, 1001}
FrameHeights == {119, 120, 179, 180, 299, 300}

\* placements on a page 600 wide: centres at 150, 300 and 450
Placements ==
    {<<>>,
     <<Rect(20, 100, 280, 190)>>,
     <<Rect(170, 100, 430, 190)>>,
     <<Rect(20, 100, 280, 190), Rect(320, 100, 580, 190)>>}

SelectionLabel == <<Span(S_LEFT_EYE_SELECTED, 50, 60)>>

InitFrames ==
    /\ \E w \in FrameWidths, h \in FrameHeights, rects \in Placements,
          more \in SeqsUpTo({GoodFrame}, MaxFailFrames - 1),
          label1 \in {<<>>, SelectionLabel},
          later \in {<<>>, <<<<>>>>, <<SelectionLabel>>} :
          LET images == <<Image(w, h, S_png, rects, 10, TRUE)>> \o more
          IN  FfaCall(Doc(<<Page(<<Span(S_FA, 50, 40)>> \o label1, images)>>
                          \o [k \in DOMAIN later |->
                                Page(later[k], images)]),
                      Opts(FALSE, 1, DEFAULT_THRESHOLD))
    /\ comb = None
    /\ oct = None
    /\ par = None
    /\ proc = None

SpecFrames == InitFrames /\ [][NextFfa]_vars

\* the page whose frames have just been discovered
ThisPage == doc.pages[page_num + 1]

LabelOn(page) ==
    LET text_upper == Upper(get_text(page))
    IN  Contains(text_upper, S_RIGHT_EYE_SELECTED)
        \/ Contains(text_upper, S_LEFT_EYE_SELECTED)

\* the placements of the frames of the page: <<image index, rect index>>
PlacementIds ==
    {id \in (DOMAIN ThisPage.images) \X (1..2) :
        id[2] \in DOMAIN ThisPage.images[id[1]].rects}

IdsOf(candidates) == {candidates[k].id : k \in DOMAIN candidates}

IsStripeSize(img) == img.w > 1000 /\ img.h < 120

IsStandardSize(img, relaxed) ==
    /\ ~IsStripeSize(img)
    /\ IF relaxed THEN img.w >= 200 /\ img.h >= 180
       ELSE img.w >= 300 /\ img.h >= 300

\* the candidates of the page are as the thresholds say, one per placement,
\* each in the column of its rectangle's centre
CandidatesAre(relaxed) ==
    /\ IdsOf(page_state.stripes) =
          {id \in PlacementIds :
              /\ ThisPage.images[id[1]].decodes
              /\ IsStripeSize(ThisPage.images[id[1]])}
    /\ IdsOf(page_state.standard) =
          {id \in PlacementIds :
              /\ ThisPage.images[id[1]].decodes
              /\ IsStandardSize(ThisPage.images[id[1]], relaxed)}
    /\ Cardinality(IdsOf(page_state.stripes)) = Len(page_state.stripes)
    /\ Cardinality(IdsOf(page_state.standard)) = Len(page_state.standard)
    /\ \A c \in Range(page_state.stripes) \cup Range(page_state.standard) :
          LET rect == ThisPage.images[c.id[1]].rects[c.id[2]]
          IN  c.column = IF rect.x0 + rect.x1 < ThisPage.width THEN 1 ELSE 2

\* C20 as stated: the minimum of a standard candidate is relaxed to 200 x
\* 180 when an explicit eye-selection label is present on the page of the
\* frame.
C20_AsStated == pc = "emit" => CandidatesAre(LabelOn(ThisPage))

\* C20 (amended): a placement is a stripe candidate exactly when the raster
\* has width > 1000 and height < 120; otherwise it is a standard candidate
\* exactly when width >= 300 and height >= 300, the minimum being 200 x 180
\* on every page of a document whose page-1 text holds an explicit
\* eye-selection label, whatever the text of the frame's own page; every
\* other frame and every frame without placement yields no candidate; a
\* frame with several placements yields one candidate per placement, in
\* column 1 if the centre of the rectangle is left of the page midpoint and
\* in column 2 otherwise.
C20_FrameClassification ==
    pc = "emit" => CandidatesAre(LabelOn(doc.pages[1]))

\* on page 2, which holds no label, a 200 x 180 frame placed twice gives
\* two standard candidates, one per column, under the label of page 1
C20_Witness ==
    /\ pc = "emit"
    /\ page_num = 1
    /\ ~LabelOn(ThisPage)
    /\ LabelOn(doc.pages[1])
    /\ ThisPage.images[1].w = 200 /\ ThisPage.images[1].h = 180
    /\ \E a, b \in Range(page_state.standard) :
          a.id = <<1, 1>> /\ b.id = <<1, 2>> /\ a.column = 1 /\ b.column = 2

(***************************************************************************)
(* SpecTimestamps: one-page documents with stripe groups in the columns    *)
(* and, in any order, spans holding a (MM:SS.mmm) value and 'Timestamp'    *)
(* header spans without value, nearer to and farther from the groups.      *)
(***************************************************************************)
MaxTimeSpans == 2

S_TIME_2 == <<"(","0","1",":","3","0",".","0","0","0",")">>
S_Timestamp == <<"T","i","m","e","s","t","a","m","p">>

\* the centre of Stripe(col, 100) is at 102: 95 and 109 are both 7 away
TimeSpanChoices ==
    {Span(t, x, y) : t \in {S_TIME_1, S_TIME_2, S_Timestamp},
                     x \in {50, 350}, y \in {95, 109, 112}}

TimeImages ==
    {<<Stripe(1, 100), Stripe(2, 100)>>,
     <<Stripe(1, 100), Stripe(1, 200)>>,
     <<Frame(400, 400, 1, 100, 10, TRUE)>>}

InitTimestamps ==
    /\ \E spans \in SeqsUpTo(TimeSpanChoices, MaxTimeSpans),
          images \in TimeImages :
          FfaCall(Doc(<<Page(<<Span(S_FA, 50, 40)>> \o spans, images)>>),
                  Opts(FALSE, 1, DEFAULT_THRESHOLD))
    /\ comb = None
    /\ oct = None
    /\ par = None
    /\ proc = None

SpecTimestamps == InitTimestamps /\ [][NextFfa]_vars

\* the spans of a column that hold a (MM:SS.mmm) value
ValuedIn(col) ==
    {i \in DOMAIN Page1.spans :
        /\ LiesIn(Page1.spans[i], col)
        /\ timestamp_search(Page1.spans[i].text) # -1}

\* the value of a span, ':' replaced by '-'
ValueOf(i) ==
    LET text == Page1.spans[i].text
        at == timestamp_search(text)
    IN  Replace(SubSeq(text, at + 2, at + 10), <<":">>, <<"-">>)

\* twice the vertical distance of a span to the centre of a group
Distance2(i, e) == Abs(2 * Page1.spans[i].y - (e.rect.y0 + e.rect.y1))

Nearest(e) ==
    {i \in ValuedIn(e.column) :
        \A j \in ValuedIn(e.column) : Distance2(i, e) <= Distance2(j, e)}

TimeInName(e, ts) ==
    EndsWith(e.filename,
             <<"_">> \o ts \o (IF e.combined THEN S__combine ELSE <<>>)
             \o S_dot_png)

\* C21 as stated: the name of every stripe group holds the value of a
\* nearest timestamp span of the group's column, and 'no-time' exactly when
\* the column has no timestamp span.
C21_TimestampAttachment ==
    \A k \in DOMAIN images_info :
        LET e == images_info[k]
        IN  e.kind = "stripe" =>
            IF ValuedIn(e.column) = {}
            THEN TimeInName(e, S_no_time)
            ELSE \E i \in Nearest(e) : TimeInName(e, ValueOf(i))

\* what holds: a span of the other column is never used, and when every
\* timestamp entry of the column holds a value the name holds the value of
\* a nearest one
C21_ValuedSpansOnly ==
    \A k \in DOMAIN images_info :
        LET e == images_info[k]
            headers == {i \in DOMAIN Page1.spans :
                           /\ LiesIn(Page1.spans[i], e.column)
                           /\ is_timestamp_span(Page1.spans[i].text)
                           /\ timestamp_search(Page1.spans[i].text) = -1}
        IN  e.kind = "stripe" =>
            /\ TimeInName(e, e.timestamp)
            /\ e.timestamp # S_no_time =>
                  \E i \in ValuedIn(e.column) : e.timestamp = ValueOf(i)
            /\ headers = {} =>
                  IF ValuedIn(e.column) = {}
                  THEN e.timestamp = S_no_time
                  ELSE \E i \in Nearest(e) : e.timestamp = ValueOf(i)

(***************************************************************************)
(* SpecRule: one extract_oct_images_from_pdf call over single-frame        *)
(* documents whose right-corner crop, or whose rendered first page, reads  *)
(* as a short list of laterality tokens, abbreviations and words mixed.    *)
(***************************************************************************)
RuleTokens ==
    {S_OD, S_OS, S_LEFT, S_RIGHT, S_0S, <<"O","S","/","O","D">>,
     <<"O","D","/","O","S">>, <<"E","Y","E">>}

InitRule ==
    /\ FfaIdle
    /\ comb = None
    /\ par = None
    /\ proc = None
    /\ \E tokens \in SeqsUpTo(RuleTokens, MaxOcrResults) :
          \/ OctCall(OctDoc(<<OctPage(<<>>,
                               <<CornerFrame(tokens, Reads(<<S_OD>>))>>)>>,
                            NoText),
                     OctArgs(1, <<>>, None, 1))
          \/ OctCall(OctDoc(<<OctPage(<<>>, <<Blank>>)>>, Reads(tokens)),
                     OctArgs(1, <<>>, None, 1))

SpecRule == InitRule /\ [][NextOct]_vars

\* the positions of the right-eye and of the left-eye tokens in a text
RightAt(text) ==
    {i \in 0..Len(text) : OccursAt(text, S_OD, i) \/ OccursAt(text, S_RIGHT, i)}
LeftAt(text) ==
    {i \in 0..Len(text) : OccursAt(text, S_OS, i) \/ OccursAt(text, S_LEFT, i)}

\* the side whose token or synonym occurs first, <<>> without token
FirstSide(text) ==
    LET right == RightAt(text)
        left == LeftAt(text)
    IN  IF right = {} /\ left = {} THEN <<>>
        ELSE IF left = {} THEN L_OD
        ELSE IF right = {} THEN L_OS
        ELSE IF SetMin(right) < SetMin(left) THEN L_OD ELSE L_OS

\* the normalized text of the first region read for the frame, and of the
\* rendered page
CornerNormal(e) == normalize_misreads(CornerText(e))
PageNormal == normalize_misreads(join_upper(oct.doc.page_ocr.results))

\* C22 as stated: the verdict of a region is the side whose token or
\* synonym occurs first in its normalized text; without token the region
\* gives no verdict and the cascade goes on to the next region.
C22_DecisionRule ==
    \A k \in DOMAIN oct.files :
        LET e == oct.files[k]
        IN  IF FirstSide(CornerNormal(e)) # <<>>
            THEN e.eye_label = FirstSide(CornerNormal(e)) /\ e.reads = 1
            ELSE /\ e.reads > 1
                 /\ e.reads = 7 => e.eye_label = FirstSide(PageNormal)

(***************************************************************************)
(* SpecCascade: one extract_oct_images_from_pdf call over documents whose  *)
(* pages hold no frame, a small frame, frames without any readable text,   *)
(* or a frame decided by the corner, by the extended regions or by the     *)
(* page text; the rendered first page reads as nothing, as OD, or raises.  *)
(***************************************************************************)
CascadePageChoices ==
    {OctPage(<<>>, <<>>),
     OctPage(<<>>, <<SmallFrame>>),
     OctPage(<<>>, <<Blank>>),
     OctPage(<<>>, <<Blank, Blank>>),
     OctPage(<<>>, <<Blank, CornerFrame(<<S_OS>>, NoText)>>),
     OctPage(<<>>, <<TopLeft>>),
     OctPage(<<Span(S_OS, 50, 40)>>, <<Blank>>)}

InitCascade ==
    /\ FfaIdle
    /\ comb = None
    /\ par = None
    /\ proc = None
    /\ \E pages \in SeqsUpTo(CascadePageChoices, MaxOctPages),
          page_ocr \in {NoText, Reads(<<S_OD>>), Fails} :
          OctCall(OctDoc(pages, page_ocr), OctArgs(1, <<>>, None, 1))

SpecCascade == InitCascade /\ [][NextOct]_vars

\* what each step gives for the frame of a saved file
CornerVerdict(e) == detect_eye_from_oct_image(FrameOf(e), FALSE).label
ExtendedVerdict(e) == detect_eye_from_oct_image(FrameOf(e), TRUE).label
TextVerdict(e) == page_text_eye(oct.doc.pages[e.page])
RenderVerdict == detect_eye_from_pdf_page(oct.doc).label

UndeterminedAfterImage(e) ==
    CornerVerdict(e) = <<>> /\ ExtendedVerdict(e) = <<>>

UndeterminedAfterText(e) ==
    /\ UndeterminedAfterImage(e)
    /\ e.page = 1 => TextVerdict(e) = <<>>

Rendered(k) == \E a \in DOMAIN oct.files[k].attempts :
                  oct.files[k].attempts[a] = "render"

\* the attempts of every frame are made in order, each only after all
\* earlier ones gave no verdict, and the verdict is that of the last one;
\* Due(k) says for which frames the rendered page is due
CascadeOrder(Due(_)) ==
    /\ \A k \in DOMAIN oct.files :
          LET e == oct.files[k]
          IN  IF e.from_cache THEN e.attempts = <<>>
              ELSE
              /\ e.attempts =
                    <<"corner">>
                    \o (IF CornerVerdict(e) = <<>> THEN <<"extended">>
                        ELSE <<>>)
                    \o (IF UndeterminedAfterImage(e) /\ e.page = 1
                        THEN <<"text">> ELSE <<>>)
                    \o (IF Due(k) THEN <<"render">> ELSE <<>>)
              /\ e.eye_label =
                    IF CornerVerdict(e) # <<>> THEN CornerVerdict(e)
                    ELSE IF ExtendedVerdict(e) # <<>> THEN ExtendedVerdict(e)
                    ELSE IF e.page = 1 /\ TextVerdict(e) # <<>>
                    THEN TextVerdict(e)
                    ELSE IF Due(k) THEN RenderVerdict
                    ELSE <<>>
    /\ Cardinality({k \in DOMAIN oct.files : Rendered(k)}) <= 1

\* the first frame of the document still undetermined after steps 1-3
DueAsStated(k) ==
    /\ UndeterminedAfterText(oct.files[k])
    /\ \A j \in 1..(k - 1) : ~UndeterminedAfterText(oct.files[j])

\* the first frame of page 1 still undetermined after steps 1-3
DueOnFirstPage(k) ==
    /\ oct.files[k].page = 1
    /\ UndeterminedAfterText(oct.files[k])
    /\ \A j \in 1..(k - 1) : ~UndeterminedAfterText(oct.files[j])

\* C23 as stated: the rendered-page attempt is made for the first frame of
\* the document that is still undetermined after steps 1-3.
C23_AsStated == CascadeOrder(DueAsStated)

\* C23 (amended): for a frame processed while no verdict is cached the
\* attempts are, in this order, the corner regions, the extended regions,
\* the page text (frames of the first page only) and the OCR of the
\* rendered first page; each is made only if all earlier ones gave no
\* verdict and the first verdict ends the cascade.  The rendered-page
\* attempt is made only for a frame of the first page: for the first such
\* frame still undetermined after steps 1-3, and at most once per document;
\* an undetermined frame of a later page stays without verdict.
C23_CascadeEscalation == CascadeOrder(DueOnFirstPage)

\* page 1 holds two frames without text: the first gets the four attempts
\* and no verdict, the second only three
C23_Witness ==
    /\ oct.pc = "done"
    /\ Len(oct.files) >= 2
    /\ oct.files[1].attempts = <<"corner", "extended", "text", "render">>
    /\ oct.files[1].eye_label = <<>>
    /\ oct.files[2].attempts = <<"corner", "extended", "text">>

(***************************************************************************)
(* Emission order and counting, over the documents of SpecFrames.          *)
(***************************************************************************)
\* <<image index, rect index>> of a comes before that of b
Before(a, b) == a[1] < b[1] \/ (a[1] = b[1] /\ a[2] < b[2])

\* the manifest entries of the page being emitted
OfThisPage == SelectSeq(images_info, LAMBDA e : e.page = page_num + 1)

ManifestInOrder ==
    /\ \A i, j \in DOMAIN images_info :
          i < j => images_info[i].page <= images_info[j].page
    /\ pc = "emit" =>
          /\ \A i, j \in DOMAIN page_state.standard :
                i < j => Before(page_state.standard[i].id,
                                page_state.standard[j].id)
          /\ ~page_state.has_stripes =>
                /\ Len(OfThisPage) = page_state.si - 1
                /\ \A j \in DOMAIN OfThisPage :
                      /\ OfThisPage[j].kind = "standard"
                      /\ OfThisPage[j].rect = page_state.standard[j].rect
                      /\ OfThisPage[j].source =
                            page_state.standard[j].pil_image

CounterIsManifestLength ==
    /\ pc = "start" => total_images = 0 /\ images_info = <<>>
    /\ total_images = Len(images_info)
    /\ (pc = "done" /\ result.status = "success") =>
          /\ result.num_images = Len(result.images)
          /\ result.images = images_info

OneFrameAtATime ==
    \/ UNCHANGED <<total_images, images_info>>
    \/ /\ total_images' = total_images + 1
       /\ \E e \in {images_info'[Len(images_info')]} :
             images_info' = Append(images_info, e)

\* C24: manifest entries appear in non-decreasing page order and, within a
\* page, the standard frames appear in discovery order (by image, then by
\* placement); the frame counter starts at 0 and every step either leaves
\* counter and manifest alone or appends one entry and adds one, so the
\* counter always equals the manifest length and a successful call returns
\* num_images equal to the length of the manifest it returns.
C24_EmissionOrder ==
    /\ [](ManifestInOrder /\ CounterIsManifestLength)
    /\ [][OneFrameAtATime]_vars

\* a call has returned four entries: two placements of the first image and
\* the second image on page 1, then page 2
C24_Witness ==
    /\ pc = "done"
    /\ result.status = "success"
    /\ result.num_images >= 4
    /\ images_info[1].page = 1 /\ images_info[2].page = 1
    /\ images_info[1].source = images_info[2].source
    /\ images_info[1].rect # images_info[2].rect
    /\ images_info[Len(images_info)].page = 2

(***************************************************************************)
(* SpecCase: the OCT part of process_single_case, one folder of documents  *)
(* extracted in sequence into the same directory, each call starting at    *)
(* the caller's image_counter.                                              *)
(***************************************************************************)
\* the caller's locals before the first document: image_counter = 1 and
\* result['oct_extracted'] = 0; saved and starts record what was written
\* before each call and the start_index the call was given
CaseLocals(pdfs) ==
    [oct_pdfs |-> pdfs, pdf_idx |-> 1, image_counter |-> 1,
     oct_extracted |-> 0, saved |-> 0,
     starts |-> <<[start_index |-> 1, saved_before |-> 0]>>,
     pc |-> "oct"]

\* the body of for pdf_idx, pdf in enumerate(oct_pdfs, 1) after the call
\* returned, and the next call when a document is left
CaseOctCollect ==
    /\ "oct_pdfs" \in DOMAIN par
    /\ par.pc = "oct"
    /\ oct.pc = "done"
    /\ LET num_images == oct.result.returned
           counter == par.image_counter + num_images
           saved == par.saved + Len(oct.files)
       IN  IF par.pdf_idx < Len(par.oct_pdfs)
           THEN /\ par' = [par EXCEPT
                              !.oct_extracted = @ + num_images,
                              !.image_counter = counter,
                              !.saved = saved,
                              !.pdf_idx = @ + 1,
                              !.starts = Append(@,
                                  [start_index |-> counter,
                                   saved_before |-> saved])]
                /\ oct' = OctLocals(par.oct_pdfs[par.pdf_idx + 1],
                                    OctArgs(counter, <<>>, None,
                                            par.pdf_idx + 1))
           ELSE /\ par' = [par EXCEPT
                              !.oct_extracted = @ + num_images,
                              !.image_counter = counter,
                              !.saved = saved,
                              !.pc = "done"]
                /\ oct' = oct
    /\ UNCHANGED <<ffa_vars, comb, proc>>

CaseDocs ==
    {OctDoc(<<p>>, NoText) : p \in OctPageChoices}
    \cup {OctDoc(<<>>, NoText),
          [OctDoc(<<>>, NoText) EXCEPT !.opens = FALSE]}

InitCase ==
    /\ FfaIdle
    /\ comb = None
    /\ proc = None
    /\ \E pdfs \in SeqsUpTo(CaseDocs, MaxDocs - 1) \ {<<>>} :
          /\ par = CaseLocals(pdfs)
          /\ OctCall(pdfs[1], OctArgs(1, <<>>, None, 1))

NextCase == NextOct \/ CaseOctCollect

SpecCase == InitCase /\ [][NextCase]_vars

\* C25: after any number of documents of a case, oct_extracted is the
\* number of OCT frames saved for the case so far, and every call was
\* given as start_index one more than the number of frames saved before it.
C25_CaseCount ==
    /\ par.oct_extracted = par.saved
    /\ \A i \in DOMAIN par.starts :
          par.starts[i].start_index = par.starts[i].saved_before + 1

\* the part of C25 that the code keeps: the value returned by one call is
\* start_index - 1 plus the number of frames it saved, or 0 when the
\* document did not open
C25_ReturnValue ==
    oct.pc = "done" =>
        oct.result.returned =
            IF oct.doc.opens THEN oct.args.start_index - 1 + Len(oct.files)
            ELSE 0

(***************************************************************************)
(* SpecUnique: pages with two standard frames side by side or one above    *)
(* the other, or with stripe tiles, and label spans near either frame.     *)
(***************************************************************************)
UniqueSpanChoices ==
    {Span(T_FA_1_30, 20, 95), Span(T_IR_30, 330, 95),
     Span(T_FA_1_30, 20, 295), Span(S_OD, 350, 60)}

UniqueImages ==
    {<<Frame(400, 400, 1, 100, 10, TRUE), Frame(400, 400, 2, 100, 10, TRUE)>>,
     <<Frame(400, 400, 1, 100, 10, TRUE), Frame(400, 400, 1, 300, 10, TRUE)>>,
     <<Frame(400, 400, 1, 100, 10, TRUE)>>,
     <<Stripe(1, 100), Stripe(1, 104), Stripe(2, 100)>>}

InitUnique ==
    /\ \E spans \in SeqsUpTo(UniqueSpanChoices, MaxNameSpans),
          images \in UniqueImages, more \in SecondPages :
          FfaCall(Doc(<<Page(<<Span(S_FA_SP, 50, 700)>> \o spans, images)>>
                      \o more),
                  Opts(FALSE, 1, DEFAULT_THRESHOLD))
    /\ comb = None
    /\ oct = None
    /\ par = None
    /\ proc = None

SpecUnique == InitUnique /\ [][NextFfa]_vars

\* C26: within one call no two emitted frames receive the same output file
\* name, so the number of distinct files written is the returned frame count.
C26_UniqueNames ==
    /\ \A i, j \in DOMAIN images_info :
          i # j => images_info[i].filename # images_info[j].filename
    /\ (pc = "done" /\ result.status = "success") =>
          Cardinality(NamesOf(images_info)) = result.num_images

\* C27: within one extract_oct_images_from_pdf call no two saved frames
\* receive the same output file name, so the number of distinct files
\* written is the number of frames counted.
C27_UniqueOctNames ==
    /\ \A i, j \in DOMAIN oct.files :
          i # j => oct.files[i].filename # oct.files[j].filename
    /\ oct.pc = "done" /\ oct.doc.opens =>
          Cardinality(NamesOf(oct.files)) =
              oct.total_images - (oct.args.start_index - 1)

\* the part of C27 that the code keeps: the frames named with img<k> have
\* names of their own
C27_NumberedNamesUnique ==
    \A i, j \in DOMAIN oct.files :
       /\ i # j
       /\ Len(oct.doc.pages[oct.files[i].page].images) > 1
       => oct.files[i].filename # oct.files[j].filename

\* the page whose emission ends is as C28 says: without stripe candidates
\* its manifest entries are its standard candidates, one entry each; with
\* stripe candidates they are its stripe groups and nothing else
PageAsStated ==
    IF page_state.stripes = <<>>
    THEN /\ Len(OfThisPage) = Len(page_state.standard)
         /\ \A k \in DOMAIN OfThisPage :
               /\ OfThisPage[k].kind = "standard"
               /\ OfThisPage[k].rect = page_state.standard[k].rect
               /\ OfThisPage[k].source = page_state.standard[k].pil_image
    ELSE /\ Len(OfThisPage) = Len(page_state.groups)
         /\ page_state.groups # <<>>
         /\ \A k \in DOMAIN OfThisPage :
               /\ OfThisPage[k].kind = "stripe"
               /\ OfThisPage[k].label =
                     Tail(S_col) \o IntToStr(page_state.groups[k].col)
                     \o S_img \o IntToStr(page_state.groups[k].idx)

\* C28: when the emission of a page ends, a page with zero stripe
\* candidates has had every standard candidate emitted exactly once, and a
\* page with at least one stripe candidate, in either column, has had its
\* stripe groups emitted and none of its standard candidates.
C28_StripesExcludeStandard ==
    [][pc = "emit" /\ pc' = "page" => PageAsStated]_vars

\* the emission of a page that holds a stripe candidate and a standard
\* candidate has ended with entries in the manifest
C28_Witness ==
    /\ pc = "emit"
    /\ page_state.stripes # <<>>
    /\ page_state.standard # <<>>
    /\ page_state.gi > Len(page_state.groups)
    /\ OfThisPage # <<>>

\* C29: a call that returns status skipped or error has neither created the
\* output directory nor written a file, and a call that has created the
\* directory or written a file ends in status success.
C29_NoPartialOutput ==
    pc = "done" =>
        /\ result.status \in {"skipped", "error"} => out_dir = NoDir
        /\ out_dir # NoDir => result.status = "success"

\* the part of C29 that the code keeps: a call that returns skipped or
\* error leaves nothing behind, and the directory is created only once the
\* gate is passed
C29_RejectedCallsLeaveNothing ==
    /\ pc \in {"start", "gate"} => out_dir = NoDir
    /\ (pc = "done" /\ result.status \in {"skipped", "error"}) =>
          out_dir = NoDir
    /\ out_dir # NoDir => gate(pdf_info, opts.extract_ir) = "extract"

\* C30: analyze_pdf_info never returns modality MIXED; whenever one of the
\* keyword counts of page 1 is positive the verdict is one of ICGA, FFA+IR,
\* FFA and IR.
C30_NeverMixed ==
    Classified =>
        /\ HasVerdict => pdf_info.type # "MIXED"
        /\ SomeCountPositive =>
              /\ HasVerdict
              /\ pdf_info.type \in {"ICGA", "FFA+IR", "FFA", "IR"}

\* the one combination that passes every has_ffa and has_ir test of the
\* chain: ICGA alone is positive, and the verdict is ICGA
C30_Witness ==
    /\ Classified
    /\ IcgaCount > 0 /\ FaCount = 0 /\ IrCount = 0
    /\ pdf_info.type = "ICGA"

====
